---- MODULE Spec2Model ----
(***************************************************************************)
(* Model of the resilience layer of hkex-filing-scraper:                   *)
(*   - db.py        upsert_batch_with_retry (binary-split batch upsert)    *)
(*   - pipeline.py  _save_document_to_filing (payload sizing),             *)
(*                  run_phase2 (backfill driver), run_phase1 (metadata)    *)
(* Each component has its own specification over the shared variables.     *)
(***************************************************************************)
EXTENDS Integers, Sequences, FiniteSets, TLC

VARIABLES
    \* ---- upsert_batch_with_retry (db.py) ----
    statements,   \* number n of statements of the top-level call (statement i is index i)
    malformed,    \* statements the backend rejects whenever a request contains them
    budget,       \* transient backend errors (timeouts, resets) the backend may still produce
    transients,   \* transient errors produced so far
    log_ok,       \* whether the side file logs/hkex_failed.sql can be written
    frames,       \* call stack of upsert_batch_with_retry, innermost last
    ret,          \* value being returned to the caller frame, None when no return is in flight
    result,       \* value returned by the top-level call, None until it returns
    written,      \* written[i] = number of accepted requests that contained statement i
    requests,     \* number of requests sent to the backend
    failed_sql,   \* statements the call appended to the side file, in order
    attempted,    \* history: statements that were part of a request sent to the backend
    sql_statements,  \* the statements argument, when the call is one of Phase 1
    \* ---- _save_document_to_filing (pipeline.py) ----
    extracted_text,  \* the text argument: a sequence of runs of characters
    tables_json,     \* the tables argument: the encoded size of each table
    text_to_save,    \* the text the next request carries
    native_tables,   \* the tables the next request carries (the kept tables)
    was_truncated,   \* the was_truncated flag
    save_pc,         \* position in _save_document_to_filing
    doc_writes,      \* the write requests sent for the document, in order
    save_result,     \* the (success, error_code) returned, empty before the return
    save_fid,        \* the fid argument: the filing the document belongs to
    \* ---- the exchange_filing table (SurrealDB) ----
    documentUrl,           \* documentUrl of each filing: "none", "" or a URL
    documentStatus,        \* documentStatus of each filing, "none" when unset
    documentStatusReason,  \* documentStatusReason of each filing
    \* ---- run_phase2 (pipeline.py) ----
    p2_pc,               \* position in run_phase2
    batch_size,          \* the batch_size argument
    max_workers,         \* the max_workers argument
    limit,               \* the limit argument
    stats,               \* the stats dict
    effective_limit,
    batch_num,
    consecutive_stalls,
    filings,             \* the filings selected for the current batch, in order
    queued,              \* download tasks submitted and not yet started, in order
    running,             \* download tasks a worker is running
    completed,           \* finished downloads the loop has not handled yet, in order
    downloaded_docs,     \* the downloaded_docs list
    batch_skipped,
    batch_downloaded,
    selected_status,     \* history: documentStatus when the current batch was selected
    outcomes,            \* history: the download outcome of each task of the batch
    marks,               \* history: the status marks sent during the batch
    zero_change_batches, \* history: consecutive finished batches that changed no status
    db_in_flight,        \* the backend requests sent and not yet answered, with their thread
    \* ---- the metadata of the exchange_filing table (SurrealDB) ----
    exchange_filing,     \* the metadata row stored under each record id
    \* ---- run_phase1 (pipeline.py) ----
    p1_pc,               \* position in run_phase1
    dry_run,             \* the dry_run argument
    chunks,              \* the records the HKEx API holds for each monthly chunk
    chunk_idx,           \* monthly chunks handled so far
    all_filings,         \* the all_filings list
    saved_ids,           \* the saved_ids set
    save_i,              \* the index i of the save loop
    total_saved,
    run_no,              \* the number of this scrape, the backend's time::now()
    fetched_all,         \* history: no chunk of this scrape was skipped
    first_table,         \* history: exchange_filing when the first scrape returned
    first_complete,      \* history: the first scrape fetched and saved every record
    \* ---- main (main.py) ----
    main_pc,             \* position in main
    args,                \* the parsed command line
    env,                 \* which settings of config.py are non-empty
    total,               \* the count run_phase1 returned
    exit_status,         \* the status of sys.exit, None while the process runs
    sent,                \* history: the kinds of request sent and of work done
    \* ---- calls of the helpers of utils.py ----
    esc_pc,              \* "call" before escape_sql runs, "done" after
    s_arg,               \* the argument s of escape_sql
    esc_result,          \* the string escape_sql returned
    ref_pc,              \* "call" before extract_referenced_tickers runs, "done" after
    title,               \* its argument title
    own_stock_code,      \* its argument own_stock_code
    ref_result,          \* the list it returned
    \* ---- calls of generate_monthly_chunks (api.py) ----
    gen_pc,              \* "call" before generate_monthly_chunks runs, "done" after
    dt_from,             \* its argument date_from
    dt_to,               \* its argument date_to
    monthly_chunks       \* the list it returned

upsertVars == <<statements, malformed, budget, transients, log_ok, frames, ret,
                result, written, requests, failed_sql, attempted>>

saveVars == <<extracted_text, tables_json, text_to_save, native_tables, was_truncated,
              save_pc, doc_writes, save_result, save_fid>>

dbVars == <<documentStatus, documentStatusReason>>

paramVars == <<documentUrl, batch_size, max_workers, limit>>

loopVars == <<stats, effective_limit, batch_num, consecutive_stalls, filings,
              selected_status, zero_change_batches>>

poolVars == <<queued, running, completed, outcomes>>

batchVars == <<downloaded_docs, batch_skipped, batch_downloaded, marks>>

requestVars == <<db_in_flight>>

phase2Vars == <<p2_pc, paramVars, loopVars, poolVars, batchVars, requestVars>>

scrapeVars == <<p1_pc, dry_run, chunks, chunk_idx, all_filings, saved_ids, save_i,
                total_saved, run_no, fetched_all>>

historyVars == <<first_table, first_complete>>

phase1Vars == <<sql_statements, scrapeVars, historyVars>>

mainVars == <<main_pc, args, env, total, exit_status, sent>>

apiVars == <<gen_pc, dt_from, dt_to, monthly_chunks>>

\* the calls of the pure helpers
utilsVars == <<esc_pc, s_arg, esc_result, ref_pc, title, own_stock_code, ref_result,
               apiVars>>

vars == <<upsertVars, saveVars, dbVars, phase2Vars, exchange_filing, phase1Vars, mainVars,
          utilsVars>>

\* the variables an action of one component leaves alone
notUpsert == <<saveVars, dbVars, phase2Vars, phase1Vars, mainVars, utilsVars>>
notSave == <<upsertVars, phase2Vars, exchange_filing, phase1Vars, mainVars, utilsVars>>
notPhase2 == <<upsertVars, exchange_filing, phase1Vars, mainVars, utilsVars>>
notPhase1 == <<saveVars, dbVars, phase2Vars, mainVars, utilsVars>>
notMain == <<upsertVars, saveVars, dbVars, phase2Vars, exchange_filing, phase1Vars,
             utilsVars>>
notUtils == <<upsertVars, saveVars, dbVars, phase2Vars, exchange_filing, phase1Vars,
              mainVars>>

None == -1

\* the value of save_result while the call has not returned
NoResult == <<>>

----------------------------------------------------------------------------
(* Bounds of the model *)

\* largest statement list with one malformed statement (2^max_depth + 1)
MaxN == 65
\* largest statement list with an arbitrary set of malformed statements
SmallN == 4
\* transient backend errors per call
MaxTransient == 1
\* filings in the exchange_filing table
MaxFilings == 2
Filings == 1 .. MaxFilings
\* the limit, batch_size and max_workers arguments passed to run_phase2
Limits == {0, 3, 4}
BatchSizes == {0, 1, 2}
WorkerCounts == {1, 2}
\* records the HKEx API returns for one monthly chunk
MaxChunkLen == 1
\* the monthly chunks of the scraped date range
Months == 1 .. 2
\* a scrape and its repetition over the same date range
Scrapes == {1, 2}

----------------------------------------------------------------------------
(* Strings: a string is the sequence of its tokens (words, and the         *)
(* characters " ", "/", "'" and "\\" each as a token of their own)   utils.py *)

\* utils.py 46-49, re.sub(r"\s+", " ", ...): runs of whitespace become one space
RECURSIVE CollapseWs(_)
CollapseWs(s) ==
    IF Len(s) < 2 THEN s
    ELSE IF s[1] = " " /\ s[2] = " " THEN CollapseWs(Tail(s))
    ELSE <<s[1]>> \o CollapseWs(Tail(s))

\* utils.py 49, .strip()
RECURSIVE Strip(_)
Strip(s) ==
    IF s = <<>> THEN s
    ELSE IF s[1] = " " THEN Strip(Tail(s))
    ELSE IF s[Len(s)] = " " THEN Strip(SubSeq(s, 1, Len(s) - 1))
    ELSE s

\* utils.py 46-49
squash_ws(s) == Strip(CollapseWs(s))

\* a Python value that is None or a string
PyNone == [none |-> TRUE, chars |-> <<>>]

Str(chars) == [none |-> FALSE, chars |-> chars]

\* str.isprintable() or " ": the newline token stands for "\n", "\r", "\t" and
\* the other control characters
IsPrintable(c) == c # "\n"

\* str.replace(old, new) for a one-character old
RECURSIVE Replace(_, _, _)
Replace(s, old, new) ==
    IF s = <<>> THEN <<>>
    ELSE (IF s[1] = old THEN new ELSE <<s[1]>>) \o Replace(Tail(s), old, new)

\* the quotes escaped before the backslashes
escape_sql_quotes_first(v) ==
    IF v.none THEN <<>>
    ELSE LET printable == SelectSeq(v.chars, IsPrintable)
             spaced == Replace(printable, "\n", <<" ">>)
         IN  Replace(Replace(spaced, "'", <<"\\", "'">>), "\\", <<"\\", "\\">>)

\* utils.py 52-61: None gives the empty string; the characters that are not
\* printable are dropped (57), which leaves nothing for line 58 to replace;
\* then every backslash is doubled (59) and every single quote gets a
\* backslash (60)
escape_sql(v) ==
    IF v.none THEN <<>>
    ELSE LET printable == SelectSeq(v.chars, IsPrintable)
             spaced == Replace(printable, "\n", <<" ">>)
         IN  Replace(Replace(spaced, "\\", <<"\\", "\\">>), "'", <<"\\", "'">>)

\* the value the backend stores for the single-quoted literal '{s}' of a
\* statement: a backslash makes the token after it part of the value
RECURSIVE LiteralValue(_)
LiteralValue(s) ==
    IF s = <<>> THEN <<>>
    ELSE IF s[1] = "\\" /\ Len(s) >= 2 THEN <<s[2]>> \o LiteralValue(Tail(Tail(s)))
    ELSE <<s[1]>> \o LiteralValue(Tail(s))

----------------------------------------------------------------------------
(* upsert_batch_with_retry                                     db.py 65-97 *)

max_depth == 6

Len0(f) == f.hi - f.lo + 1

Slice(f) == f.lo .. f.hi

Frame(lo, hi, depth) == [lo |-> lo, hi |-> hi, depth |-> depth, pc |-> "query", left |-> 0]

Top == frames[Len(frames)]

Pop == SubSeq(frames, 1, Len(frames) - 1)

\* line 76: the backend answers a request with an error
\* (a malformed statement in it, or a transient failure of the transport)
HasMalformed(f) == Slice(f) \cap malformed # {}

\* a give-up condition that ignores the depth
GiveUpSingleOnly(f) == Len0(f) = 1

\* line 77: the give-up condition of a rejected batch
GiveUpEarly(f) == f.depth >= max_depth - 1 \/ Len0(f) = 1

GiveUp(f) == f.depth >= max_depth \/ Len0(f) = 1

\* a split that peels off the first statement
MidFirst(f) == 1

\* line 93: mid = len(statements) // 2
Mid(f) == Len0(f) \div 2

\* line 94: statements[:mid] at depth + 1
LeftHalf(f) == Frame(f.lo, f.lo + Mid(f) - 1, f.depth + 1)

\* line 95: statements[mid:] at depth + 1
RightHalfOverlap(f) == Frame(f.lo + Mid(f) - 1, f.hi, f.depth + 1)

RightHalf(f) == Frame(f.lo + Mid(f), f.hi, f.depth + 1)

\* a statement that replaces the row, as UPSERT ... CONTENT does
ExecuteContent(table, st) ==
    [fid \in DOMAIN table \cup {st.fid} |->
        IF fid = st.fid
        THEN [filingId |-> st.fid,
              stockCode |-> LiteralValue(st.stockCode),
              stockName |-> LiteralValue(st.stockName),
              title |-> LiteralValue(st.title),
              filingDate |-> st.filingDate,
              documentUrl |-> LiteralValue(st.documentUrl),
              updatedAt |-> run_no]
        ELSE table[fid]]

\* the backend executes one statement of Phase 1,
\*   UPSERT exchange_filing:{fid} SET filingId = ..., updatedAt = time::now()
\* (pipeline.py lines 132-160): the fields of the SET clause are written, with
\* the values their string literals denote, over the row stored under fid
Execute(table, st) ==
    LET written_fields ==
            [filingId |-> st.fid,
             stockCode |-> LiteralValue(st.stockCode),
             stockName |-> LiteralValue(st.stockName),
             title |-> LiteralValue(st.title),
             filingDate |-> st.filingDate,
             documentUrl |-> LiteralValue(st.documentUrl),
             updatedAt |-> run_no]
        old == IF st.fid \in DOMAIN table THEN table[st.fid] ELSE <<>>
    IN  [fid \in DOMAIN table \cup {st.fid} |->
            IF fid = st.fid THEN written_fields @@ old ELSE table[fid]]

\* the backend executes statements lo .. hi of an accepted request in order;
\* the text of the statements is modelled for the calls of Phase 1 only
RECURSIVE ExecuteAll(_, _, _)
ExecuteAll(table, lo, hi) ==
    IF lo > hi \/ lo \notin DOMAIN sql_statements THEN table
    ELSE ExecuteAll(Execute(table, sql_statements[lo]), lo + 1, hi)

\* lines 72-73: an empty statement list returns 0 without a request
UpsertEmpty ==
    /\ frames # <<>> /\ ret = None
    /\ Top.pc = "query" /\ Len0(Top) = 0
    /\ ret' = 0
    /\ frames' = Pop
    /\ UNCHANGED <<statements, malformed, budget, transients, log_ok, result,
                   written, requests, failed_sql>>
    /\ UNCHANGED <<exchange_filing, attempted>>
    /\ UNCHANGED notUpsert

\* lines 74-76, 97: the request is accepted, every statement of it is written
UpsertAccepted ==
    /\ frames # <<>> /\ ret = None
    /\ Top.pc = "query" /\ Len0(Top) > 0
    /\ ~HasMalformed(Top)
    /\ requests' = requests + 1
    /\ attempted' = attempted \cup Slice(Top)
    /\ written' = [i \in DOMAIN written |->
                     IF i \in Slice(Top) THEN written[i] + 1 ELSE written[i]]
    /\ exchange_filing' = ExecuteAll(exchange_filing, Top.lo, Top.hi)
    /\ ret' = Len0(Top)
    /\ frames' = Pop
    /\ UNCHANGED <<statements, malformed, budget, transients, log_ok, result, failed_sql>>
    /\ UNCHANGED notUpsert

\* the backend's error for the request of the top frame: certain when the
\* request holds a malformed statement, possible while transient errors remain
Rejected ==
    /\ frames # <<>> /\ ret = None
    /\ Top.pc = "query" /\ Len0(Top) > 0
    /\ HasMalformed(Top) \/ transients < budget
    /\ requests' = requests + 1
    /\ attempted' = attempted \cup Slice(Top)
    /\ transients' = IF HasMalformed(Top) THEN transients ELSE transients + 1

\* lines 77-92: give up on the batch, append statements[0] to the side file, return 0
UpsertGiveUp ==
    /\ Rejected
    /\ GiveUp(Top)
    /\ failed_sql' = IF log_ok THEN Append(failed_sql, Top.lo) ELSE failed_sql
    /\ ret' = 0
    /\ frames' = Pop
    /\ UNCHANGED <<statements, malformed, budget, log_ok, result, written>>
    /\ UNCHANGED exchange_filing
    /\ UNCHANGED notUpsert

\* lines 93-94: split at the midpoint and recurse on the left half
UpsertSplit ==
    /\ Rejected
    /\ ~GiveUp(Top)
    /\ frames' = Append([frames EXCEPT ![Len(frames)].pc = "left"], LeftHalf(Top))
    /\ UNCHANGED <<statements, malformed, budget, log_ok, ret, result, written, failed_sql>>
    /\ UNCHANGED exchange_filing
    /\ UNCHANGED notUpsert

\* line 94 -> 95: the left half returned, recurse on the right half
UpsertReturnLeft ==
    /\ ret # None /\ frames # <<>> /\ Top.pc = "left"
    /\ frames' = Append([frames EXCEPT ![Len(frames)].pc = "right",
                                       ![Len(frames)].left = ret], RightHalf(Top))
    /\ ret' = None
    /\ UNCHANGED <<statements, malformed, budget, transients, log_ok, result,
                   written, requests, failed_sql>>
    /\ UNCHANGED <<exchange_filing, attempted>>
    /\ UNCHANGED notUpsert

\* lines 95-96: the right half returned, return left + right
UpsertReturnRight ==
    /\ ret # None /\ frames # <<>> /\ Top.pc = "right"
    /\ ret' = Top.left + ret
    /\ frames' = Pop
    /\ UNCHANGED <<statements, malformed, budget, transients, log_ok, result,
                   written, requests, failed_sql>>
    /\ UNCHANGED <<exchange_filing, attempted>>
    /\ UNCHANGED notUpsert

\* the top-level call returns to its caller
UpsertDone ==
    /\ ret # None /\ frames = <<>> /\ result = None
    /\ result' = ret
    /\ ret' = None
    /\ UNCHANGED <<statements, malformed, budget, transients, log_ok, frames,
                   written, requests, failed_sql>>
    /\ UNCHANGED <<exchange_filing, attempted>>
    /\ UNCHANGED notUpsert

\* the statement lists and backends of the model: every list of up to MaxN
\* statements with at most one malformed statement and a deterministic backend,
\* and every list of up to SmallN statements with any set of malformed
\* statements and up to MaxTransient transient errors
UpsertInputs ==
    { [n |-> n, bad |-> b, budget |-> 0] :
        n \in 0 .. MaxN, b \in {{}} \cup { {i} : i \in 1 .. MaxN } }
    \cup
    { [n |-> n, bad |-> b, budget |-> t] :
        n \in 0 .. SmallN, b \in SUBSET (1 .. SmallN), t \in 0 .. MaxTransient }

UpsertInit ==
    \E inp \in UpsertInputs :
        /\ inp.bad \subseteq 1 .. inp.n
        /\ statements = inp.n
        /\ malformed = inp.bad
        /\ budget = inp.budget
        /\ transients = 0
        /\ log_ok \in BOOLEAN
        /\ frames = <<Frame(1, inp.n, 0)>>
        /\ ret = None
        /\ result = None
        /\ written = [i \in 1 .. inp.n |-> 0]
        /\ requests = 0
        /\ failed_sql = <<>>
        /\ attempted = {}
        /\ sql_statements = <<>>

\* no call of _save_document_to_filing is active
SaveIdle ==
    /\ extracted_text = <<>> /\ tables_json = <<>> /\ text_to_save = <<>>
    /\ native_tables = <<>> /\ was_truncated = FALSE /\ save_pc = "idle"
    /\ doc_writes = <<>> /\ save_result = NoResult /\ save_fid = 0

\* the zeroed stats dict (pipeline.py lines 512-520)
NewStats ==
    [total_missing |-> 0, total_processed |-> 0, docs_downloaded |-> 0,
     skipped |-> 0, errors |-> 0]

\* no run of run_phase2 is active; the table holds filings with a document URL
\* and no document yet
Phase2Idle ==
    /\ documentUrl = [f \in Filings |-> "doc.pdf"]
    /\ documentStatus = [f \in Filings |-> "none"]
    /\ documentStatusReason = [f \in Filings |-> <<>>]
    /\ p2_pc = "idle" /\ batch_size = 0 /\ max_workers = 0 /\ limit = 0
    /\ stats = NewStats /\ effective_limit = 0 /\ batch_num = 0
    /\ consecutive_stalls = 0 /\ filings = <<>> /\ queued = <<>> /\ running = {}
    /\ completed = <<>> /\ downloaded_docs = <<>> /\ batch_skipped = 0
    /\ batch_downloaded = 0 /\ selected_status = documentStatus
    /\ outcomes = <<>> /\ marks = <<>> /\ zero_change_batches = 0
    /\ db_in_flight = <<>>

\* no call of upsert_batch_with_retry is active
UpsertIdle ==
    /\ statements = 0 /\ malformed = {} /\ budget = 0 /\ transients = 0
    /\ log_ok = TRUE /\ frames = <<>> /\ ret = None /\ result = None
    /\ written = <<>> /\ requests = 0 /\ failed_sql = <<>> /\ attempted = {}
    /\ sql_statements = <<>>

\* the exchange_filing table without a metadata row
EmptyTable == [fid \in {} |-> fid]

\* no run of run_phase1 is active, and none has written a metadata row
Phase1Idle ==
    /\ exchange_filing = EmptyTable
    /\ p1_pc = "idle" /\ dry_run = FALSE /\ chunks = <<>> /\ chunk_idx = 0
    /\ all_filings = <<>> /\ saved_ids = {} /\ save_i = 0 /\ total_saved = 0
    /\ run_no = 0 /\ fetched_all = TRUE
    /\ first_table = EmptyTable /\ first_complete = FALSE

\* main is not running
MainIdle ==
    /\ main_pc = "idle"
    /\ args = [backfill_docs |-> FALSE, link_only |-> FALSE, metadata_only |-> FALSE,
               dry_run |-> FALSE]
    /\ env = [SURREAL_ENDPOINT |-> TRUE, SURREAL_PASS |-> TRUE, COMPANY_TABLE |-> FALSE]
    /\ total = 0 /\ exit_status = None /\ sent = {}

\* no helper of utils.py is being called
\* a datetime: a calendar day and whether its time of day is after midnight
Dt(y, m, d, late) == [y |-> y, m |-> m, d |-> d, late |-> late]

ApiIdle ==
    /\ gen_pc = "idle" /\ dt_from = Dt(0, 1, 1, FALSE) /\ dt_to = Dt(0, 1, 1, FALSE)
    /\ monthly_chunks = <<>>

UtilsIdle ==
    /\ esc_pc = "idle" /\ s_arg = PyNone /\ esc_result = <<>>
    /\ ref_pc = "idle" /\ title = <<>> /\ own_stock_code = <<>> /\ ref_result = <<>>
    /\ ApiIdle

UpsertNext ==
    \/ UpsertEmpty
    \/ UpsertAccepted
    \/ UpsertGiveUp
    \/ UpsertSplit
    \/ UpsertReturnLeft
    \/ UpsertReturnRight
    \/ UpsertDone

InitUpsert == UpsertInit /\ SaveIdle /\ Phase2Idle /\ Phase1Idle /\ MainIdle /\ UtilsIdle

SpecUpsert ==
    /\ InitUpsert
    /\ [][UpsertNext]_vars

\* the calls the liveness check follows: the calls of SpecUpsert
InitUpsertFair == InitUpsert

\* every request is answered or times out (surreal_query, urlopen timeout=240,
\* db.py 51-58), so a step of the call that is enabled is taken
SpecUpsertFair ==
    /\ InitUpsertFair
    /\ [][UpsertNext]_vars
    /\ WF_vars(UpsertNext)

----------------------------------------------------------------------------
(* Claims about upsert_batch_with_retry *)

RECURSIVE Pow2(_)
Pow2(k) == IF k = 0 THEN 1 ELSE 2 * Pow2(k - 1)

RECURSIVE SumWritten(_)
SumWritten(i) == IF i = 0 THEN 0 ELSE written[i] + SumWritten(i - 1)

Returned == result # None

\* exactly one statement is malformed, the backend rejects exactly the
\* requests that contain it, and the side file can be written
OneMalformed ==
    /\ statements >= 1
    /\ Cardinality(malformed) = 1
    /\ transients = 0
    /\ log_ok

\* C1 as stated: for every n >= 1 with exactly one malformed statement the call
\* returns n - 1 and appends exactly one entry to the side file.
C1_AnySize ==
    (Returned /\ OneMalformed)
        => (result = statements - 1 /\ Len(failed_sql) = 1)

\* C1 amended: for 1 <= n <= 2^max_depth = 64 statements with exactly one
\* malformed statement the call returns n - 1 and appends exactly one entry,
\* the malformed statement, to the side file (when the file can be written).
C1_UpTo64 ==
    (Returned /\ OneMalformed /\ statements <= Pow2(max_depth))
        => /\ result = statements - 1
           /\ Len(failed_sql) = 1
           /\ failed_sql[1] \in malformed

C1_Witness ==
    /\ Returned /\ OneMalformed
    /\ statements = Pow2(max_depth)
    /\ result = statements - 1
    /\ failed_sql = <<Pow2(max_depth)>>

\* C2: no statement is contained in two accepted requests, and the value
\* returned is the number of statements contained in accepted requests (the
\* counts of the two halves of every split summed).
C2_ReturnCountsWritten ==
    /\ \A i \in DOMAIN written : written[i] <= 1
    /\ Returned =>
          /\ result = SumWritten(statements)
          /\ result = Cardinality({ i \in DOMAIN written : written[i] = 1 })

C2_Witness ==
    /\ Returned
    /\ statements = 4
    /\ Cardinality(malformed) = 2
    /\ transients = 1
    /\ result = 2
    /\ requests >= 5

\* C11: every call returns a count (also when the side file cannot be
\* written), no call is nested deeper than max_depth, and when the call has
\* returned every statement has been part of a request: a rejected sub-batch
\* kept none of the other sub-batches from being sent
C11_UpsertAlwaysReturns ==
    /\ [](\A i \in DOMAIN frames : frames[i].depth = i - 1 /\ frames[i].depth <= max_depth)
    /\ [](Returned => /\ result \in 0 .. statements
                       /\ attempted = 1 .. statements)
    /\ <>Returned

\* a call with more than 2^max_depth statements whose first statement is
\* malformed and whose side file cannot be written: it went down to depth
\* max_depth, gave the statement up, sent every other sub-batch and returned
C11_Witness ==
    /\ Returned
    /\ ~ log_ok
    /\ statements > Pow2(max_depth)
    /\ malformed = {1}
    /\ result = statements - 1
    /\ attempted = 1 .. statements
    /\ failed_sql = <<>>

\* C12: when a call has returned and the side file can be written, the side
\* file holds one entry for each statement the call did not count as
\* written: as many entries as len(statements) minus the returned count
C12_GivenUpStatementsLogged ==
    (Returned /\ log_ok) => Len(failed_sql) = statements - result

\* the least k with 2^k >= n, for n >= 1
RECURSIVE CeilLog2(_)
CeilLog2(n) == IF n <= 1 THEN 0 ELSE 1 + CeilLog2((n + 1) \div 2)

\* the backend rejects exactly the requests that hold a malformed statement
NoTransientError == budget = 0

\* C21: a call on 1 <= n <= 64 statements sends exactly one request when
\* every statement is accepted, and at most 1 + 2 * ceil(log2 n) requests when
\* exactly one statement is malformed
C21_RequestsLogarithmic ==
    (NoTransientError /\ statements \in 1 .. Pow2(max_depth)) =>
        /\ malformed = {} => (requests <= 1 /\ (Returned => requests = 1))
        /\ Cardinality(malformed) = 1 => requests <= 1 + 2 * CeilLog2(statements)

\* 64 statements with the last one malformed took 13 requests
C21_Witness ==
    /\ Returned /\ NoTransientError
    /\ statements = Pow2(max_depth) /\ malformed = {statements}
    /\ requests = 1 + 2 * max_depth

\* one request sufficed for 64 well-formed statements
C21_WitnessAccepted ==
    /\ Returned /\ NoTransientError
    /\ statements = Pow2(max_depth) /\ malformed = {}
    /\ requests = 1

----------------------------------------------------------------------------
(* _save_document_to_filing                            pipeline.py 169-366 *)
(*                                                                         *)
(* A text is a sequence of runs [n, w, nl]: n characters that each take w  *)
(* bytes in the encoded request (1: ASCII, 2: a quote or backslash, which  *)
(* escape_sql doubles, 3: a CJK character), followed by a newline when nl. *)
(* escape_sql deletes newlines (utils.py 57: "\n" is not printable), so a  *)
(* newline counts in len(text) and takes no byte in the request.           *)
(* A table is the number of bytes of its JSON encoding.                    *)

\* bounds of the inputs
MaxRuns == 2
MaxTables == 3

RunLens == {418442, 600000}
RunWidths == {1, 3}
TableSizes == {150000, 450000}

RECURSIVE SeqsUpTo(_, _)
SeqsUpTo(S, k) ==
    IF k = 0 THEN {<<>>}
    ELSE LET shorter == SeqsUpTo(S, k - 1)
         IN  shorter \cup { Append(q, x) : q \in shorter, x \in S }

Runs == { [n |-> n, w |-> w, nl |-> b] : n \in RunLens, w \in RunWidths, b \in BOOLEAN }

\* config: the 900 KB target of the request body
MAX_SQL_BODY_SIZE == 921600
\* line 319: the hard limit of the request body, 1 MiB
HARD_LIMIT == 1048576
\* line 204
SQL_OVERHEAD_ESTIMATE == 1024
\* line 219: the least text budget for which all tables are kept
MIN_TEXT_BUDGET == 50000
\* line 234
max_tables_bytes == 204800
\* line 339
fallback_limit == 512000
\* lines 270-294: bytes of the UPDATE statement around the text, the text
\* length, the tables, the table count and the reason
SQL_WRAPPER == 362

RunLen(r) == r.n + (IF r.nl THEN 1 ELSE 0)

\* len(text)
RECURSIVE TLen(_)
TLen(t) == IF t = <<>> THEN 0 ELSE RunLen(Head(t)) + TLen(Tail(t))

\* text[:k], k >= 0
RECURSIVE Take(_, _)
Take(t, k) ==
    IF t = <<>> \/ k <= 0 THEN <<>>
    ELSE LET r == Head(t)
         IN  IF k >= RunLen(r)
             THEN <<r>> \o Take(Tail(t), k - RunLen(r))
             ELSE <<[n |-> k, w |-> r.w, nl |-> FALSE]>>

\* text.rfind("\n") of the text that starts at offset off: -1 when it has no newline
RECURSIVE RFind(_, _)
RFind(t, off) ==
    IF t = <<>> THEN -1
    ELSE LET r == Head(t)
             later == RFind(Tail(t), off + RunLen(r))
         IN  IF later # -1 THEN later
             ELSE IF r.nl THEN off + r.n ELSE -1

\* lines 223-225, 250-252, 323-325, 341-343: trim to the last complete line
TrimToLineOffByOne(t, target) ==
    LET last_nl == RFind(t, 0)
    IN  IF last_nl > target \div 2 THEN Take(t, last_nl + 1) ELSE t

TrimToLine(t, target) ==
    LET last_nl == RFind(t, 0)
    IN  IF last_nl > target \div 2 THEN Take(t, last_nl) ELSE t

\* len(escape_sql(text).encode("utf-8"))
RECURSIVE TextBytes(_)
TextBytes(t) == IF t = <<>> THEN 0 ELSE Head(t).n * Head(t).w + TextBytes(Tail(t))

RECURSIVE SumSeq(_)
SumSeq(q) == IF q = <<>> THEN 0 ELSE Head(q) + SumSeq(Tail(q))

\* line 199, 243: len(json.dumps(tables).encode("utf-8")), "[]" for no tables
TablesBytes(tbls) ==
    IF tbls = <<>> THEN 2 ELSE 2 + SumSeq(tbls) + 2 * (Len(tbls) - 1)

\* number of decimal digits of n >= 0
RECURSIVE Digits(_)
Digits(n) == IF n < 10 THEN 1 ELSE 1 + Digits(n \div 10)

\* line 213: int(len(text) * 1.1)
EstimatedTextBytes(t) == (TLen(t) * 11) \div 10

\* a target without the safety multiplier
TargetCharsNoMargin(available) == available

\* lines 220, 248: int(available_for_text / 1.1)
TargetChars(available) == (available * 10) \div 11

\* floor(a * b / c) for a, b >= 0, c > 0, without a product above 2^31
RECURSIVE MulDivRec(_, _, _)
MulDivRec(a, b, c) ==
    IF a = 0 THEN [q |-> 0, r |-> 0]
    ELSE CHOOSE v \in
            { [q |-> 2 * h.q + (a % 2) * (b \div c) + (2 * h.r + (a % 2) * (b % c)) \div c,
               r |-> (2 * h.r + (a % 2) * (b % c)) % c] :
              h \in {MulDivRec(a \div 2, b, c)} } : TRUE

MulDiv(a, b, c) == MulDivRec(a, b, c).q

\* lines 237-242: the first tables that fit max_tables_bytes, in order
RECURSIVE KeptTablesSkipping(_, _)
KeptTablesSkipping(tbls, running_size) ==
    IF tbls = <<>> THEN <<>>
    ELSE IF running_size + Head(tbls) + 2 > max_tables_bytes
         THEN KeptTablesSkipping(Tail(tbls), running_size)
         ELSE <<Head(tbls)>> \o KeptTablesSkipping(Tail(tbls), running_size + Head(tbls) + 2)

RECURSIVE KeptTables(_, _)
KeptTables(tbls, running_size) ==
    IF tbls = <<>> THEN <<>>
    ELSE IF running_size + Head(tbls) + 2 > max_tables_bytes
         THEN <<>>
         ELSE <<Head(tbls)>> \o KeptTables(Tail(tbls), running_size + Head(tbls) + 2)

\* lines 204-214: the estimate of the request size
EstimatedTotal(t, tbls) ==
    EstimatedTextBytes(t) + TablesBytes(tbls) + SQL_OVERHEAD_ESTIMATE

\* lines 218, 247
AvailableForText(tbls) == MAX_SQL_BODY_SIZE - TablesBytes(tbls) - SQL_OVERHEAD_ESTIMATE

Max(a, b) == IF a >= b THEN a ELSE b

\* lines 216-258: the text, tables and flag after the pre-truncation
PreTruncate(t, tbls) ==
    IF EstimatedTotal(t, tbls) > MAX_SQL_BODY_SIZE
    THEN IF AvailableForText(tbls) > MIN_TEXT_BUDGET
         THEN LET target_chars == TargetChars(AvailableForText(tbls))
              IN  [text |-> TrimToLine(Take(t, target_chars), target_chars),
                   tables |-> tbls, truncated |-> TRUE]
         ELSE LET kept_tables == KeptTables(tbls, 2)
                  target_chars == Max(TargetChars(AvailableForText(kept_tables)),
                                      MIN_TEXT_BUDGET)
              IN  [text |-> TrimToLine(Take(t, target_chars), target_chars),
                   tables |-> kept_tables, truncated |-> TRUE]
    ELSE [text |-> t, tables |-> tbls, truncated |-> FALSE]

\* lines 260-294, 318: the encoded size of the UPDATE request
SqlBytes(t, tbls, truncated, original_text_len) ==
    SQL_WRAPPER + TextBytes(t) + Digits(TLen(t)) + TablesBytes(tbls) + Digits(Len(tbls))
    + (IF truncated THEN 15 + Digits(original_text_len) ELSE 0)

\* a request that never names a truncation
ReasonUnrecorded(truncated, original_text_len) == <<>>

\* lines 269, 280: the documentStatusReason the request sets
Reason(truncated, original_text_len) ==
    IF truncated THEN <<"truncated_from", original_text_len>> ELSE <<>>

\* lines 260-294: the request
BuildSaveSql(t, tbls, truncated, original_text_len) ==
    [text |-> t, tables |-> tbls, reason |-> Reason(truncated, original_text_len),
     bytes |-> SqlBytes(t, tbls, truncated, original_text_len)]

\* lines 321-325: the emergency re-truncation of a request of actual_size bytes
EmergencyTruncateNoMargin(t, actual_size) ==
    LET emergency_target == MulDiv(TLen(t), HARD_LIMIT, actual_size)
    IN  TrimToLine(Take(t, emergency_target), emergency_target)

EmergencyTruncate(t, actual_size) ==
    LET emergency_target == MulDiv(TLen(t), (MAX_SQL_BODY_SIZE * 85) \div 100, actual_size)
    IN  TrimToLine(Take(t, emergency_target), emergency_target)

\* lines 340-343: the text of the fallback retry
FallbackText(t) == TrimToLine(Take(t, fallback_limit), fallback_limit)

\* lines 316-328: the text and the flag of the first request, after the
\* emergency re-truncation of a request above the hard limit
FirstAttemptText(t, tbls, truncated, original_text_len) ==
    LET actual_size == SqlBytes(t, tbls, truncated, original_text_len)
    IN  IF actual_size > HARD_LIMIT
        THEN [text |-> EmergencyTruncate(t, actual_size), truncated |-> TRUE]
        ELSE [text |-> t, truncated |-> truncated]

\* a retry that sends the whole extracted text
RetrySqlUnclamped(text) == BuildSaveSql(text, <<>>, TRUE, TLen(text))

\* lines 349: the request of the fallback retry
RetrySql(text) == BuildSaveSql(FallbackText(text), <<>>, TRUE, TLen(text))

\* the answers of the backend to a request: a body above the hard limit is
\* refused (413) or the connection is reset; any request may fail otherwise,
\* with an error of another kind ("error") whose text may hold the digits 413
\* or a reset signature ("error_413": HTTP 500 for record exchange_filing:a413b)
Answers(bytes) ==
    IF bytes > HARD_LIMIT THEN {"http_413", "reset"}
    ELSE {"ok", "http_413", "reset", "error", "error_413"}

\* lines 296-313: "413" or a reset signature is a substring of the error text
Is413(answer) == answer \in {"http_413", "reset", "error_413"}

\* lines 260-294, 344-356: what the backend does with the request it answers:
\* an accepted UPDATE sets documentStatus = 'processed' and the reason of the
\* request, a request answered with an error changes nothing
ApplySave(answer, sql) ==
    IF answer = "ok"
    THEN /\ documentStatus' = [documentStatus EXCEPT ![save_fid] = "processed"]
         /\ documentStatusReason' = [documentStatusReason EXCEPT ![save_fid] = sql.reason]
    ELSE UNCHANGED dbVars

\* lines 198-258
SavePreTruncate ==
    /\ save_pc = "start"
    /\ \E pre \in {PreTruncate(extracted_text, tables_json)} :
           /\ text_to_save' = pre.text
           /\ native_tables' = pre.tables
           /\ was_truncated' = pre.truncated
    /\ save_pc' = "first"
    /\ UNCHANGED <<extracted_text, tables_json, doc_writes, save_result, save_fid>>
    /\ UNCHANGED dbVars
    /\ UNCHANGED notSave

\* lines 315-334, 363-366: the first attempt
SaveFirstAttempt ==
    /\ save_pc = "first"
    /\ \E first \in {FirstAttemptText(text_to_save, native_tables, was_truncated,
                                      TLen(extracted_text))} :
       \E sql \in {BuildSaveSql(first.text, native_tables, first.truncated,
                                TLen(extracted_text))} :
           /\ text_to_save' = first.text
           /\ was_truncated' = first.truncated
           /\ \E answer \in Answers(sql.bytes) :
                /\ doc_writes' = Append(doc_writes, sql @@ [answer |-> answer])
                /\ ApplySave(answer, sql)
                /\ IF answer = "ok"
                   THEN save_pc' = "done" /\ save_result' = <<TRUE, "">>
                   ELSE IF Is413(answer)
                   THEN save_pc' = "fallback" /\ save_result' = save_result
                   ELSE save_pc' = "done" /\ save_result' = <<FALSE, "save_error">>
    /\ UNCHANGED <<extracted_text, tables_json, native_tables, save_fid>>
    /\ UNCHANGED notSave

\* lines 336-361: the retry without tables, the text clamped to fallback_limit
SaveFallback ==
    /\ save_pc = "fallback"
    /\ \E sql_retry \in {RetrySql(extracted_text)} :
           \E answer \in Answers(sql_retry.bytes) :
                /\ doc_writes' = Append(doc_writes, sql_retry @@ [answer |-> answer])
                /\ ApplySave(answer, sql_retry)
                /\ save_result' = IF answer = "ok" THEN <<TRUE, "">>
                                  ELSE <<FALSE, "http_413_truncation_failed">>
    /\ save_pc' = "done"
    /\ UNCHANGED <<extracted_text, tables_json, text_to_save, native_tables, was_truncated,
                   save_fid>>
    /\ UNCHANGED notSave

SaveInit ==
    /\ extracted_text \in SeqsUpTo(Runs, MaxRuns)
    /\ tables_json \in SeqsUpTo(TableSizes, MaxTables)
    /\ text_to_save = extracted_text
    /\ native_tables = tables_json
    /\ was_truncated = FALSE
    /\ save_pc = "start"
    /\ doc_writes = <<>>
    /\ save_result = NoResult
    /\ save_fid = 1

SaveNext ==
    \/ SavePreTruncate
    \/ SaveFirstAttempt
    \/ SaveFallback

InitSave == SaveInit /\ UpsertIdle /\ Phase2Idle /\ Phase1Idle /\ MainIdle /\ UtilsIdle

SpecSave ==
    /\ InitSave
    /\ [][SaveNext]_vars

----------------------------------------------------------------------------
(* Claims about _save_document_to_filing *)

\* the character at index k of the text is a newline
RECURSIVE NewlineAt(_, _)
NewlineAt(t, k) ==
    IF t = <<>> \/ k < 0 THEN FALSE
    ELSE LET r == Head(t)
         IN  IF k < r.n THEN FALSE
             ELSE IF k = r.n /\ r.nl THEN TRUE
             ELSE NewlineAt(Tail(t), k - RunLen(r))

FirstSent == Len(doc_writes) >= 1

FirstText == doc_writes[1].text

FirstTables == doc_writes[1].tables

IsPrefixOfText(t) == t = Take(extracted_text, TLen(t))

\* C3 as stated: the first write request of a document has an encoded size of
\* at most the hard limit of 1 MiB, whatever the text and the tables.
C3_FirstRequestWithinHardLimit ==
    FirstSent => doc_writes[1].bytes <= HARD_LIMIT

C9_TablesStrictPrefix ==
    (FirstSent /\ TablesBytes(tables_json) > MAX_SQL_BODY_SIZE /\ extracted_text # <<>>) =>
        /\ Len(FirstTables) < Len(tables_json)
        /\ FirstTables = SubSeq(tables_json, 1, Len(FirstTables))
        /\ TablesBytes(FirstTables) <= max_tables_bytes
        /\ FirstText # <<>> => AvailableForText(FirstTables) > 0

C9_Witness ==
    /\ FirstSent /\ TablesBytes(tables_json) > MAX_SQL_BODY_SIZE /\ extracted_text # <<>>
    /\ Len(FirstTables) = 1
    /\ FirstText # <<>>
    /\ TLen(FirstText) < TLen(extracted_text)

\* the request carries less than was extracted: a shorter text or fewer tables
Partial(w) ==
    \/ TLen(w.text) < TLen(extracted_text)
    \/ Len(w.tables) < Len(tables_json)

TextBudget == MAX_SQL_BODY_SIZE - TablesBytes(tables_json) - SQL_OVERHEAD_ESTIMATE

OverTarget == EstimatedTotal(extracted_text, tables_json) > MAX_SQL_BODY_SIZE

SizeRejection(answer) == answer \in {"http_413", "reset"}

\* C23: when the call has returned, the fallback retry was sent if and only if
\* the first attempt failed with a payload-too-large error or a connection
\* reset; after any other error no retry was sent and the call returned
\* failure with a save_error reason
C23_RetryIffSizeRejection ==
    save_pc = "done" =>
        /\ Len(doc_writes) = 2 <=> SizeRejection(doc_writes[1].answer)
        /\ (doc_writes[1].answer # "ok" /\ ~ SizeRejection(doc_writes[1].answer)) =>
              /\ Len(doc_writes) = 1
              /\ save_result = <<FALSE, "save_error">>

\* C24: the request of the fallback retry is never larger, in encoded bytes,
\* than the first request, which the backend rejected
C24_RetryNotLargerThanFirst ==
    Len(doc_writes) = 2 => doc_writes[2].bytes <= doc_writes[1].bytes

----------------------------------------------------------------------------
(* run_phase2: the backfill driver (pipeline.py lines 506-678) *)

MAX_STALLS == 3

Min(a, b) == IF a <= b THEN a ELSE b

\* batch_num never exceeds effective_limit, because every batch adds at least
\* one filing to total_processed; the guard of Phase2Select caps it above that
MaxBatchNum == Max(4, MaxFilings) + 1

\* the values of documentUrl: NONE, the empty string, a URL with a supported
\* extension and a URL with an unsupported one
Urls == {"none", "", "doc.pdf", "doc.zip"}

\* lines 39-74: what _download_document returns for a URL
DownloadResults(url) ==
    IF url = "doc.zip"
    THEN { [raw_bytes |-> FALSE, skip_reason |-> "unsupported_type"] }
    ELSE { [raw_bytes |-> TRUE, skip_reason |-> ""],
           [raw_bytes |-> FALSE, skip_reason |-> ""],
           [raw_bytes |-> FALSE, skip_reason |-> "too_large"],
           [raw_bytes |-> FALSE, skip_reason |-> "http_404"],
           [raw_bytes |-> FALSE, skip_reason |-> "error:TimeoutError"] }

\* lines 613-626: what extract_content_with_tables yields for a downloaded
\* document; an exception leaves the empty text and no tables
ExtractResults ==
    { [raised |-> TRUE, text |-> <<>>, tables |-> <<>>],
      [raised |-> FALSE, text |-> <<[n |-> 600000, w |-> 3, nl |-> TRUE]>>,
       tables |-> <<150000>>] }

\* lines 528-533, 557-563: the filings the WHERE clause matches
MissingAnyStatus == { f \in Filings : documentUrl[f] # "none" }

Missing == { f \in Filings : documentStatus[f] = "none" /\ documentUrl[f] # "none" }

\* lines 561-562: ORDER BY filingDate DESC LIMIT n; filing f was filed on day f
RECURSIVE NewestFirst(_)
NewestFirst(S) ==
    IF S = {} THEN <<>>
    ELSE LET newest == CHOOSE x \in S : \A y \in S : y <= x
         IN  <<newest>> \o NewestFirst(S \ {newest})

SelectFilings(n) == SubSeq(NewestFirst(Missing), 1, Min(n, Cardinality(Missing)))

\* lines 369-380: the request of _mark_filing_status
Mark(fid, status, reason, accepted) ==
    [fid |-> fid, status |-> status, reason |-> reason, accepted |-> accepted]

\* lines 372-380: what the backend does with the marks it accepts
RECURSIVE ApplyMarks(_, _)
ApplyMarks(db, ms) ==
    IF ms = <<>> THEN db
    ELSE LET m == Head(ms)
             db1 == IF m.accepted
                    THEN [status |-> [db.status EXCEPT ![m.fid] = m.status],
                          reason |-> [db.reason EXCEPT ![m.fid] = <<m.reason>>]]
                    ELSE db
         IN  ApplyMarks(db1, Tail(ms))

\* _mark_filing_status for each mark of ms, in order
SendMarks(ms) ==
    LET db == ApplyMarks([status |-> documentStatus, reason |-> documentStatusReason], ms)
    IN  /\ documentStatus' = db.status
        /\ documentStatusReason' = db.reason
        /\ marks' = marks \o ms

\* lines 586, 644
AfterBatchForgets(st, n) == st

AfterBatch(st, n) == [st EXCEPT !.total_processed = @ + n]

\* history: consecutive finished batches that changed no documentStatus
ZeroChange(status_after) ==
    IF status_after = selected_status THEN Min(zero_change_batches + 1, MAX_STALLS) ELSE 0

\* lines 528-549
Phase2Count ==
    /\ p2_pc = "start"
    /\ \E answered \in BOOLEAN :
        LET total_missing == IF answered THEN Cardinality(Missing) ELSE 0
        IN  /\ stats' = [NewStats EXCEPT !.total_missing = total_missing]
            /\ effective_limit' = IF limit > 0 THEN limit ELSE total_missing
            /\ p2_pc' = IF total_missing = 0 THEN "done" ELSE "loop"
    /\ batch_num' = 0
    /\ consecutive_stalls' = 0
    /\ UNCHANGED <<filings, selected_status, zero_change_batches>>
    /\ UNCHANGED <<paramVars, requestVars, poolVars, batchVars, dbVars, saveVars>>
    /\ UNCHANGED notPhase2

\* line 552: the loop condition fails
Phase2LoopExit ==
    /\ p2_pc = "loop"
    /\ ~ (stats.total_processed < effective_limit)
    /\ p2_pc' = "done"
    /\ UNCHANGED <<paramVars, requestVars, loopVars, poolVars, batchVars, dbVars, saveVars>>
    /\ UNCHANGED notPhase2

\* a batch of batch_size filings whatever is left of the limit
ThisBatchUnclamped(remaining) == batch_size

\* line 555: this_batch = min(batch_size, remaining)
ThisBatch(remaining) == Min(batch_size, remaining)

\* lines 552-570: the next batch is selected
Phase2Select ==
    /\ p2_pc = "loop"
    /\ stats.total_processed < effective_limit
    /\ batch_num < MaxBatchNum
    /\ batch_num' = batch_num + 1
    /\ LET remaining == effective_limit - stats.total_processed
           this_batch == ThisBatch(remaining)
       IN  \E answered \in BOOLEAN :
             /\ filings' = IF answered THEN SelectFilings(this_batch) ELSE <<>>
             /\ p2_pc' = IF filings' = <<>> THEN "done" ELSE "tasks"
    /\ selected_status' = documentStatus
    /\ marks' = <<>>
    /\ outcomes' = <<>>
    /\ UNCHANGED <<stats, effective_limit, consecutive_stalls, zero_change_batches>>
    /\ UNCHANGED <<queued, running, completed>>
    /\ UNCHANGED <<downloaded_docs, batch_skipped, batch_downloaded>>
    /\ UNCHANGED <<paramVars, requestVars, dbVars, saveVars>>
    /\ UNCHANGED notPhase2

\* lines 574-583: the filings of the batch with an empty documentUrl, and the
\* download tasks
NoUrlFilings == SelectSeq(filings, LAMBDA f : documentUrl[f] = "")

DownloadTasks == SelectSeq(filings, LAMBDA f : documentUrl[f] # "")

\* lines 581-583: the marks of the filings without a URL, each accepted or not
NoUrlMarks ==
    { [i \in 1 .. Len(NoUrlFilings) |->
          Mark(NoUrlFilings[i], "skipped", "no_document_url", acc[i])] :
      acc \in [1 .. Len(NoUrlFilings) -> BOOLEAN] }

\* the locals of an iteration are dead when it ends: each is assigned again
\* before the next iteration reads it
BatchLocalsDead ==
    /\ filings' = <<>> /\ selected_status' = documentStatus'
    /\ queued' = <<>> /\ running' = {} /\ completed' = <<>> /\ outcomes' = <<>>
    /\ downloaded_docs' = <<>> /\ batch_skipped' = 0 /\ batch_downloaded' = 0

\* lines 574-587: no filing of the batch has a URL to download
Phase2NoTasks ==
    /\ p2_pc = "tasks"
    /\ DownloadTasks = <<>>
    /\ \E ms \in NoUrlMarks : SendMarks(ms)
    /\ stats' = AfterBatch([stats EXCEPT !.skipped = @ + Len(NoUrlFilings)], Len(filings))
    /\ zero_change_batches' = ZeroChange(documentStatus')
    /\ p2_pc' = "loop"
    /\ BatchLocalsDead
    /\ UNCHANGED <<effective_limit, batch_num, consecutive_stalls>>
    /\ UNCHANGED <<paramVars, requestVars, saveVars>>
    /\ UNCHANGED notPhase2

\* lines 574-593: the download tasks are submitted to the executor
Phase2Submit ==
    /\ p2_pc = "tasks"
    /\ DownloadTasks # <<>>
    /\ \E ms \in NoUrlMarks : SendMarks(ms)
    /\ stats' = [stats EXCEPT !.skipped = @ + Len(NoUrlFilings)]
    /\ queued' = DownloadTasks
    /\ running' = {}
    /\ completed' = <<>>
    /\ downloaded_docs' = <<>>
    /\ batch_skipped' = 0
    /\ p2_pc' = "download"
    /\ UNCHANGED <<effective_limit, batch_num, consecutive_stalls, filings,
                   selected_status, zero_change_batches>>
    /\ UNCHANGED <<outcomes, batch_downloaded>>
    /\ UNCHANGED <<paramVars, requestVars, saveVars>>
    /\ UNCHANGED notPhase2

\* a pool that starts a thread for every submitted task
FreeWorkerAlways == TRUE

\* line 591: ThreadPoolExecutor(max_workers=max_workers) has an idle thread
FreeWorker == Cardinality(running) < max_workers

\* line 592: a free worker of the pool starts the next submitted task
WorkerStart ==
    /\ p2_pc = "download"
    /\ queued # <<>>
    /\ FreeWorker
    /\ running' = running \cup {Head(queued)}
    /\ queued' = Tail(queued)
    /\ UNCHANGED <<completed, outcomes>>
    /\ UNCHANGED <<p2_pc, paramVars, requestVars, loopVars, batchVars, dbVars, saveVars>>
    /\ UNCHANGED notPhase2

\* lines 77-81: _download_worker returns
WorkerFinish ==
    /\ p2_pc = "download"
    /\ \E fid \in running :
         \E r \in DownloadResults(documentUrl[fid]) :
            /\ running' = running \ {fid}
            /\ completed' = Append(completed, [fid |-> fid] @@ r)
            /\ outcomes' = [x \in DOMAIN outcomes \cup {fid} |->
                               IF x = fid
                               THEN r @@ [saved |-> FALSE, error_code |-> "", attempts |-> 0,
                                          extract_error |-> FALSE, empty_write |-> FALSE]
                               ELSE outcomes[x]]
    /\ UNCHANGED queued
    /\ UNCHANGED <<p2_pc, paramVars, requestVars, loopVars, batchVars, dbVars, saveVars>>
    /\ UNCHANGED notPhase2

\* line 600: skip_reason or "download_failed"
SkipReasonGeneric(skip_reason) == "download_failed"

SkipReason(skip_reason) == IF skip_reason # "" THEN skip_reason ELSE "download_failed"

\* lines 594-598: the next completed future carries the bytes of a document
Phase2Collect ==
    /\ p2_pc = "download"
    /\ completed # <<>>
    /\ Head(completed).raw_bytes
    /\ downloaded_docs' = Append(downloaded_docs, Head(completed).fid)
    /\ completed' = Tail(completed)
    /\ UNCHANGED <<queued, running, outcomes>>
    /\ UNCHANGED <<batch_skipped, batch_downloaded, marks>>
    /\ UNCHANGED <<p2_pc, paramVars, requestVars, loopVars, dbVars, saveVars>>
    /\ UNCHANGED notPhase2

\* lines 599-600: the next completed future carries no bytes; the coordinating
\* thread sends the request of _mark_filing_status while the pool goes on
Phase2MarkSkippedSend ==
    /\ p2_pc = "download"
    /\ completed # <<>>
    /\ ~ Head(completed).raw_bytes
    /\ db_in_flight = <<>>
    /\ db_in_flight' = <<[thread |-> "MainThread", fid |-> Head(completed).fid]>>
    /\ UNCHANGED <<p2_pc, paramVars, loopVars, poolVars, batchVars, dbVars, saveVars>>
    /\ UNCHANGED notPhase2

\* lines 600-601: the request of the mark is answered
Phase2MarkSkipped ==
    /\ p2_pc = "download"
    /\ db_in_flight # <<>>
    /\ LET c == Head(completed)
       IN  \E accepted \in BOOLEAN :
             SendMarks(<<Mark(c.fid, "skipped", SkipReason(c.skip_reason), accepted)>>)
    /\ db_in_flight' = <<>>
    /\ batch_skipped' = batch_skipped + 1
    /\ completed' = Tail(completed)
    /\ UNCHANGED <<queued, running, outcomes>>
    /\ UNCHANGED <<downloaded_docs, batch_downloaded>>
    /\ UNCHANGED <<p2_pc, paramVars, loopVars, saveVars>>
    /\ UNCHANGED notPhase2

\* lines 594, 606-612: every future has been handled and the pool is shut down
Phase2DownloadsDone ==
    /\ p2_pc = "download"
    /\ queued = <<>> /\ running = {} /\ completed = <<>>
    /\ stats' = [stats EXCEPT !.skipped = @ + batch_skipped]
    /\ batch_downloaded' = 0
    /\ p2_pc' = "persist"
    /\ UNCHANGED <<effective_limit, batch_num, consecutive_stalls, filings,
                   selected_status, zero_change_batches>>
    /\ UNCHANGED <<downloaded_docs, batch_skipped, marks>>
    /\ UNCHANGED <<paramVars, requestVars, poolVars, dbVars, saveVars>>
    /\ UNCHANGED notPhase2

\* lines 198-366: the runs of _save_document_to_filing for a document: the
\* requests it sends with the answers of the backend, and the value it returns
SaveCalls(text, tables) ==
    LET pre == PreTruncate(text, tables)
        first == FirstAttemptText(pre.text, pre.tables, pre.truncated, TLen(text))
        sql == BuildSaveSql(first.text, pre.tables, first.truncated, TLen(text))
        sql_retry == RetrySql(text)
    IN  { [writes |-> <<sql @@ [answer |-> a]>>,
           result |-> IF a = "ok" THEN <<TRUE, "">> ELSE <<FALSE, "save_error">>] :
          a \in { x \in Answers(sql.bytes) : ~ Is413(x) } }
        \cup
        { [writes |-> <<sql @@ [answer |-> a], sql_retry @@ [answer |-> b]>>,
           result |-> IF b = "ok" THEN <<TRUE, "">>
                      ELSE <<FALSE, "http_413_truncation_failed">>] :
          a \in { x \in Answers(sql.bytes) : Is413(x) }, b \in Answers(sql_retry.bytes) }

\* lines 613-630: the documents extract_content_with_tables may yield and the
\* runs of _save_document_to_filing for them
PersistCalls ==
    UNION { { call @@ [raised |-> doc.raised] : call \in SaveCalls(doc.text, doc.tables) } :
            doc \in ExtractResults }

\* lines 628-630: the first request of the call carries no text and no table
EmptyWrite(call) == call.writes[1].text = <<>> /\ call.writes[1].tables = <<>>

\* the last request of a call
LastWrite(call) == call.writes[Len(call.writes)]

\* lines 613-636: the next downloaded document is extracted and saved
Phase2Saved ==
    /\ p2_pc = "persist"
    /\ downloaded_docs # <<>>
    /\ \E call \in PersistCalls :
         /\ call.result[1]
         /\ documentStatus' = [documentStatus EXCEPT ![Head(downloaded_docs)] = "processed"]
         /\ documentStatusReason' =
               [documentStatusReason EXCEPT ![Head(downloaded_docs)] = LastWrite(call).reason]
         /\ outcomes' = [outcomes EXCEPT ![Head(downloaded_docs)].saved = TRUE,
                                         ![Head(downloaded_docs)].attempts = Len(call.writes),
                                         ![Head(downloaded_docs)].extract_error = call.raised,
                                         ![Head(downloaded_docs)].empty_write = EmptyWrite(call)]
    /\ batch_downloaded' = batch_downloaded + 1
    /\ downloaded_docs' = Tail(downloaded_docs)
    /\ UNCHANGED <<batch_skipped, marks>>
    /\ UNCHANGED <<queued, running, completed>>
    /\ UNCHANGED <<p2_pc, paramVars, requestVars, loopVars, saveVars>>
    /\ UNCHANGED notPhase2

\* lines 613-630, 637-639: the next downloaded document is extracted, the save
\* fails and the filing is marked failed
Phase2MarkFailed ==
    /\ p2_pc = "persist"
    /\ downloaded_docs # <<>>
    /\ \E call \in PersistCalls :
         /\ ~ call.result[1]
         /\ \E accepted \in BOOLEAN :
              SendMarks(<<Mark(Head(downloaded_docs), "failed", call.result[2], accepted)>>)
         /\ outcomes' = [outcomes EXCEPT ![Head(downloaded_docs)].error_code = call.result[2],
                                         ![Head(downloaded_docs)].attempts = Len(call.writes),
                                         ![Head(downloaded_docs)].extract_error = call.raised,
                                         ![Head(downloaded_docs)].empty_write = EmptyWrite(call)]
    /\ stats' = [stats EXCEPT !.errors = @ + 1]
    /\ downloaded_docs' = Tail(downloaded_docs)
    /\ UNCHANGED <<effective_limit, batch_num, consecutive_stalls, filings,
                   selected_status, zero_change_batches>>
    /\ UNCHANGED <<batch_skipped, batch_downloaded>>
    /\ UNCHANGED <<queued, running, completed>>
    /\ UNCHANGED <<p2_pc, paramVars, requestVars, saveVars>>
    /\ UNCHANGED notPhase2

\* lines 652-653
Stalled == batch_downloaded + batch_skipped = 0

\* lines 641-666: the end of the batch and the stall detection
Phase2BatchEnd ==
    /\ p2_pc = "persist"
    /\ downloaded_docs = <<>>
    /\ stats' = AfterBatch([stats EXCEPT !.docs_downloaded = @ + batch_downloaded],
                           Len(filings))
    /\ consecutive_stalls' = IF Stalled THEN consecutive_stalls + 1 ELSE 0
    /\ p2_pc' = IF Stalled /\ consecutive_stalls' >= MAX_STALLS THEN "done" ELSE "loop"
    /\ zero_change_batches' = ZeroChange(documentStatus)
    /\ UNCHANGED dbVars
    /\ BatchLocalsDead
    /\ marks' = <<>>
    /\ UNCHANGED <<effective_limit, batch_num>>
    /\ UNCHANGED <<paramVars, requestVars, saveVars>>
    /\ UNCHANGED notPhase2

\* the rows a filing may have when a run starts: rows written by the metadata
\* scrape (lines 96-163, no documentStatus) with each kind of documentUrl, and
\* the rows an earlier run has processed, skipped or failed
InitialRows ==
    { [url |-> u, status |-> "none", reason |-> <<>>] : u \in Urls }
    \cup
    { [url |-> "doc.pdf", status |-> "processed", reason |-> <<>>],
      [url |-> "doc.pdf", status |-> "skipped", reason |-> <<"http_404">>],
      [url |-> "doc.pdf", status |-> "failed", reason |-> <<"save_error">>] }

\* the tables and the arguments of the model
Phase2Init ==
    /\ \E rows \in [Filings -> InitialRows] :
         /\ documentUrl = [f \in Filings |-> rows[f].url]
         /\ documentStatus = [f \in Filings |-> rows[f].status]
         /\ documentStatusReason = [f \in Filings |-> rows[f].reason]
    /\ p2_pc = "start"
    /\ batch_size \in BatchSizes
    /\ max_workers \in WorkerCounts
    /\ limit \in Limits
    /\ stats = NewStats /\ effective_limit = 0 /\ batch_num = 0
    /\ consecutive_stalls = 0 /\ filings = <<>> /\ queued = <<>> /\ running = {}
    /\ completed = <<>> /\ downloaded_docs = <<>> /\ batch_skipped = 0
    /\ batch_downloaded = 0 /\ selected_status = documentStatus
    /\ outcomes = <<>> /\ marks = <<>> /\ zero_change_batches = 0
    /\ db_in_flight = <<>>

Phase2Next ==
    \/ Phase2Count
    \/ Phase2LoopExit
    \/ Phase2Select
    \/ Phase2NoTasks
    \/ Phase2Submit
    \/ WorkerStart
    \/ WorkerFinish
    \/ Phase2Collect
    \/ Phase2MarkSkippedSend
    \/ Phase2MarkSkipped
    \/ Phase2DownloadsDone
    \/ Phase2Saved
    \/ Phase2MarkFailed
    \/ Phase2BatchEnd

InitBackfill == Phase2Init /\ UpsertIdle /\ SaveIdle /\ Phase1Idle /\ MainIdle /\ UtilsIdle

SpecBackfill ==
    /\ InitBackfill
    /\ [][Phase2Next]_vars

\* the runs the liveness check follows: a table no run has touched yet, no
\* limit or a limit of MAX_STALLS filings
InitBackfillFair ==
    /\ InitBackfill
    /\ \A f \in Filings : documentStatus[f] = "none"
    /\ limit \in {0, MAX_STALLS}

\* every call of the driver returns: the downloads and the backend requests
\* time out (urlopen timeout=60, surreal_query timeout), so a step that is
\* enabled is taken
SpecBackfillFair ==
    /\ InitBackfillFair
    /\ [][Phase2Next]_vars
    /\ WF_vars(Phase2Next)

----------------------------------------------------------------------------
(* Claims about run_phase2 *)

\* the run has returned
Finished == p2_pc = "done"

\* the run is between two iterations of its loop, or has returned
BetweenBatches == p2_pc \in {"loop", "done"}

\* C4: once 3 consecutive batches have each changed no documentStatus, the
\* run has stopped, and it stopped short of the limit in force:
\* total_processed < effective_limit
C4_StopsAfterThreeZeroChangeBatches ==
    (BetweenBatches /\ zero_change_batches >= MAX_STALLS)
        => /\ Finished
           /\ stats.total_processed < effective_limit

\* the tasks of the batch whose future the loop of lines 594-604 has handled
HandledTasks == DOMAIN outcomes \ { completed[i].fid : i \in DOMAIN completed }

\* the reason of a failed download: the skip_reason _download_document
\* returned, "download_failed" for an empty body
FailureReason(r) == IF r.skip_reason = "" THEN "download_failed" ELSE r.skip_reason

\* a skipped mark with the reason of its failure was sent for filing f, and it
\* set the status and the reason of f if the backend accepted it
MarkedSkipped(f) ==
    \E i \in DOMAIN marks :
        /\ marks[i].fid = f
        /\ marks[i].status = "skipped"
        /\ marks[i].reason = FailureReason(outcomes[f])
        /\ marks[i].accepted =>
              /\ documentStatus[f] = "skipped"
              /\ documentStatusReason[f] = <<FailureReason(outcomes[f])>>

\* every document of the batch has been through the save
BatchPersisted == p2_pc = "persist" /\ downloaded_docs = <<>>

\* C5: in a batch, every filing whose download failed is marked skipped with
\* the reason of the failure, every filing whose download and save succeeded
\* is marked processed whatever happened to the others, and stats.errors
\* changes only in the step that handles a failed save, never for a download
C5_DownloadFailureIsSkippedNotError ==
    /\ [](\A f \in HandledTasks : ~ outcomes[f].raw_bytes => MarkedSkipped(f))
    /\ [](BatchPersisted =>
            \A f \in DOMAIN outcomes :
                (outcomes[f].raw_bytes /\ outcomes[f].saved)
                    => documentStatus[f] = "processed")
    /\ [][stats'.errors # stats.errors
            => /\ stats'.errors = stats.errors + 1
               /\ downloaded_docs # <<>>
               /\ downloaded_docs' = Tail(downloaded_docs)
               /\ ~ outcomes'[Head(downloaded_docs)].saved
               /\ outcomes'[Head(downloaded_docs)].error_code # ""]_vars

\* a batch with a download that failed with HTTP 404 and was marked skipped
\* for it, another filing that was processed, and no error counted
C5_Witness ==
    /\ BatchPersisted
    /\ stats.errors = 0
    /\ \E f \in DOMAIN outcomes, g \in DOMAIN outcomes :
        /\ outcomes[f].skip_reason = "http_404"
        /\ documentStatus[f] = "skipped"
        /\ documentStatusReason[f] = <<"http_404">>
        /\ outcomes[g].saved
        /\ documentStatus[g] = "processed"

\* the three final values of documentStatus
FinalStatuses == {"processed", "skipped", "failed"}

\* C6: a documentStatus changes only from none to processed, skipped or
\* failed; once written it and its reason never change again; and every
\* batch the backfill selects, and every download it starts, is of filings
\* whose status is none
C6_StatusWrittenOnce ==
    [][/\ \A f \in Filings :
            /\ documentStatus[f] # "none"
                => /\ documentStatus'[f] = documentStatus[f]
                   /\ documentStatusReason'[f] = documentStatusReason[f]
            /\ documentStatus'[f] # documentStatus[f]
                => /\ documentStatus[f] = "none"
                   /\ documentStatus'[f] \in FinalStatuses
       /\ filings' # filings
            => \A i \in DOMAIN filings' : documentStatus[filings'[i]] = "none"
       /\ \A f \in running' \ running : documentStatus[f] = "none"]_vars

\* a batch was selected while a filing with a URL already had each of the
\* three statuses, and none of them is part of it
C6_Witness ==
    /\ p2_pc = "tasks"
    /\ batch_num >= 2
    /\ \E f \in Filings :
        /\ documentUrl[f] # "none"
        /\ documentStatus[f] \in FinalStatuses
        /\ \A i \in DOMAIN filings : filings[i] # f

\* the count of line 530 found nothing to process
NothingMissing == p2_pc = "start" /\ stats'.total_missing = 0

\* the loop condition of line 547 is false
LimitReached == p2_pc = "loop" /\ stats.total_processed >= effective_limit

\* the select of lines 552-570 returned no filings
SelectEmpty == p2_pc = "loop" /\ batch_num' = batch_num + 1 /\ filings' = <<>>

\* the stall counter of lines 650-663 reached MAX_STALLS
StallsExhausted == p2_pc = "persist" /\ consecutive_stalls' >= MAX_STALLS

\* C7: every run of run_phase2 returns, after at most effective_limit
\* batches, and it returns because nothing was missing, because
\* total_processed reached the effective limit, because the select returned
\* no filings, or because MAX_STALLS consecutive stalls were counted
C7_Terminates ==
    /\ [](batch_num <= effective_limit)
    /\ [][(Finished' /\ ~Finished)
            => NothingMissing \/ LimitReached \/ SelectEmpty \/ StallsExhausted]_vars
    /\ (p2_pc = "start") ~> Finished

\* a run that returned after effective_limit batches, none of which changed a
\* status: the downloads failed and the backend rejected every mark
C7_Witness ==
    /\ Finished
    /\ batch_num = effective_limit
    /\ batch_num >= MAX_STALLS
    /\ zero_change_batches >= MAX_STALLS
    /\ stats.skipped = stats.total_processed

\* a call of _save_document_to_filing of the persist phase sends one request,
\* or two when the backend rejected the first as too large; the second
\* carries no table and a prefix of the extracted text of at most
\* fallback_limit characters, and when it fails too the call returns
\* (False, "http_413_truncation_failed")
RetriesOnceClamped(doc, call) ==
    /\ Len(call.writes) \in {1, 2}
    /\ Len(call.writes) = 2 <=> Is413(call.writes[1].answer)
    /\ Len(call.writes) = 2 =>
          /\ call.writes[2].tables = <<>>
          /\ TLen(call.writes[2].text) <= fallback_limit
          /\ call.writes[2].text = Take(doc.text, TLen(call.writes[2].text))
          /\ call.writes[2].answer # "ok"
                => call.result = <<FALSE, "http_413_truncation_failed">>

\* the step of the persist phase that found the save of the next document failed
SaveFailedStep == stats'.errors # stats.errors

WorkerStep == running' # running

\* C16: only the downloads run concurrently: at most max_workers of them are
\* in flight and none outside the download step; every backend request is
\* sent by the coordinating thread, at most one is in flight, and no step of
\* a worker sends a request or changes the table
C16_OnlyDownloadsConcurrent ==
    /\ [](Cardinality(running) <= max_workers)
    /\ [](p2_pc # "download" => running = {} /\ queued = <<>> /\ db_in_flight = <<>>)
    /\ [](/\ Len(db_in_flight) <= 1
          /\ \A i \in DOMAIN db_in_flight : db_in_flight[i].thread = "MainThread")
    /\ [][WorkerStep => UNCHANGED <<dbVars, marks, db_in_flight>>]_vars

\* the request of a mark is in flight while every worker of the pool is
\* downloading
C16_Witness ==
    /\ p2_pc = "download"
    /\ Len(db_in_flight) = 1
    /\ Cardinality(running) = max_workers

\* C17: when the extraction of a downloaded document raised, the filing was
\* still handed to persistence with empty text and no tables, and a filing
\* whose save succeeded is recorded as skipped
C17_ExtractionFailureRecordedSkipped ==
    \A f \in DOMAIN outcomes :
        outcomes[f].extract_error =>
            /\ outcomes[f].attempts >= 1
            /\ outcomes[f].empty_write
            /\ outcomes[f].saved => documentStatus[f] = "skipped"

\* the filings of the batch in hand for which neither a status mark has been
\* sent nor a save has been attempted
Unhandled ==
    { g \in { filings[i] : i \in DOMAIN filings } :
        /\ \A i \in DOMAIN marks : marks[i].fid # g
        /\ ~ (g \in DOMAIN outcomes /\ outcomes[g].attempts > 0) }

\* the step sends the status mark of filing f or runs its extraction and save
HandledNow(f) ==
    /\ f \in Unhandled
    /\ f \notin Unhandled'
    /\ \/ \E i \in DOMAIN marks' : i > Len(marks) /\ marks'[i].fid = f
       \/ f \in DOMAIN outcomes' /\ outcomes'[f].attempts > 0

\* C25: within a batch the filings are handled newest first: when the status
\* mark or the extraction and save of a filing is performed, no filing of the
\* batch with a later filing date is still waiting for its own
C25_BatchHandledNewestFirst ==
    [][\A f \in Filings : HandledNow(f) => \A g \in Unhandled' : g < f]_vars

\* C26: no persistence write for a filing of the batch, status mark or
\* document save, is under way while a download of the batch is queued or
\* running
C26_NoWriteWhileDownloading ==
    /\ db_in_flight # <<>> => (queued = <<>> /\ running = {})
    /\ p2_pc = "persist" => (queued = <<>> /\ running = {})

\* the step ends a batch: the driver goes back to the head of its loop or
\* returns
BatchEnds == p2_pc \in {"tasks", "persist"} /\ p2_pc' \in {"loop", "done"}

\* C27: a batch increments the stall counter if and only if it changed no
\* documentStatus, a batch that changed one resets the counter to 0, and the
\* counter never exceeds MAX_STALLS
C27_StallIsZeroChangeBatch ==
    /\ [][BatchEnds =>
            IF documentStatus' = selected_status
            THEN consecutive_stalls' = consecutive_stalls + 1
            ELSE consecutive_stalls' = 0]_vars
    /\ [](consecutive_stalls <= MAX_STALLS)

\* C29: between two batches and on return, total_processed is at most the
\* limit in force and every filing counted in it is counted once as
\* downloaded, skipped or error
C29_CountersAddUp ==
    BetweenBatches =>
        /\ stats.total_processed <= effective_limit
        /\ stats.docs_downloaded + stats.skipped + stats.errors = stats.total_processed

\* a run that returned at its limit with one filing saved and one not
C29_Witness ==
    /\ Finished
    /\ stats.total_processed = effective_limit
    /\ stats.docs_downloaded = 1
    /\ stats.skipped + stats.errors = 1

----------------------------------------------------------------------------
(* run_phase1, _save_filings_batch_metadata              pipeline.py 88-499 *)

SAVE_BATCH == 50

\* the records _parse_api_record (api.py 32-72) can make of the API's answer:
\* a filing, the same filing scraped again after the issuer was renamed and
\* the document moved, and another filing of the same issuer and day
Records ==
    { [stockCode |-> <<"00001">>, date |-> <<"11", "/", "02", "/", "2026">>,
       title |-> <<"Annual", " ", "Report">>,
       stockName |-> <<"CKH", " ", "HOLDINGS">>, link |-> <<"a.pdf">>],
      [stockCode |-> <<"00001">>, date |-> <<"11", "/", "02", "/", "2026">>,
       title |-> <<"Annual", " ", "Report">>,
       stockName |-> <<"CKHH">>, link |-> <<"b.pdf">>],
      [stockCode |-> <<"00001">>, date |-> <<"11", "/", "02", "/", "2026">>,
       title |-> <<"Chairman", "'", "s", " ", "Statement">>,
       stockName |-> <<"CKH", " ", "HOLDINGS">>, link |-> <<"c.pdf">>] }

\* what fetch_chunk_via_api can return for one chunk
RECURSIVE RecordLists(_)
RecordLists(n) ==
    IF n = 0 THEN {<<>>}
    ELSE RecordLists(n - 1)
            \cup { Append(l, r) : l \in { k \in RecordLists(n - 1) : Len(k) = n - 1 },
                                  r \in Records }

\* hashlib.md5(...).hexdigest()[:16], taken to be free of collisions
md5_16(s) == <<"md5", s>>

\* an id that also hashes stockName
FilingIdOfName(f) == md5_16(f.stockCode \o f.date \o f.title \o f.stockName)

\* lines 98-100 and 462-464: md5 of f"{stockCode}{date}{title}"
FilingId(f) == md5_16(f.stockCode \o f.date \o f.title)

\* date_str.split("/")
RECURSIVE SplitSlash(_)
SplitSlash(s) ==
    IF s = <<>> THEN << <<>> >>
    ELSE IF Head(s) = "/" THEN << <<>> >> \o SplitSlash(Tail(s))
    ELSE CHOOSE parts \in { << <<Head(s)>> \o Head(rest) >> \o Tail(rest) :
                              rest \in {SplitSlash(Tail(s))} } : TRUE

\* lines 105-111: d'yyyy-mm-dd' for a dd/mm/yyyy date, NULL otherwise
FilingDateExpr(date_str) ==
    IF date_str = <<>> \/ Len(SplitSlash(date_str)) # 3 THEN <<"NULL">>
    ELSE <<"d'">> \o SplitSlash(date_str)[3] \o <<"-">> \o SplitSlash(date_str)[2]
            \o <<"-">> \o SplitSlash(date_str)[1] \o <<"'">>

\* lines 132-160: the UPSERT statement of a record, by the values it carries;
\* companyTicker, filingType, filingSubtype, filingCategory and
\* referencedTickers are computed from stockCode and title alone and are not
\* modelled
UpsertStatement(f) ==
    [fid |-> FilingId(f),
     stockCode |-> escape_sql(Str(f.stockCode)),
     stockName |-> escape_sql(Str(squash_ws(f.stockName))),
     title |-> escape_sql(Str(squash_ws(f.title))),
     filingDate |-> FilingDateExpr(f.date),
     documentUrl |-> escape_sql(Str(f.link))]

\* lines 461-467: the records of a chunk whose id is new are collected
RECURSIVE Collect(_, _)
Collect(acc, chunk_filings) ==
    IF chunk_filings = <<>> THEN acc
    ELSE LET f == Head(chunk_filings)
         IN  Collect(IF FilingId(f) \notin acc.saved_ids
                        THEN [saved_ids |-> acc.saved_ids \cup {FilingId(f)},
                              all_filings |-> Append(acc.all_filings, f)]
                        ELSE acc,
                     Tail(chunk_filings))

\* line 488: batch = all_filings[i : i + SAVE_BATCH]
Batch == SubSeq(all_filings, save_i + 1, Min(save_i + SAVE_BATCH, Len(all_filings)))

\* the locals of the scrape after line 432
Phase1Locals ==
    /\ chunk_idx' = 0 /\ all_filings' = <<>> /\ saved_ids' = {}
    /\ save_i' = 0 /\ total_saved' = 0 /\ fetched_all' = TRUE

\* lines 452-459: fetching the chunk raised, the chunk is skipped
Phase1ChunkSkipped ==
    /\ p1_pc = "chunks" /\ chunk_idx < Len(chunks)
    /\ chunk_idx' = chunk_idx + 1
    /\ fetched_all' = FALSE
    /\ UNCHANGED <<p1_pc, dry_run, chunks, all_filings, saved_ids, save_i,
                   total_saved, run_no>>
    /\ UNCHANGED <<sql_statements, historyVars, exchange_filing, upsertVars>>
    /\ UNCHANGED notPhase1

\* lines 452-475: the chunk is fetched and its new records are collected
Phase1ChunkFetched ==
    /\ p1_pc = "chunks" /\ chunk_idx < Len(chunks)
    /\ chunk_idx' = chunk_idx + 1
    /\ \E acc \in {Collect([saved_ids |-> saved_ids, all_filings |-> all_filings],
                           chunks[chunk_idx + 1])} :
         /\ saved_ids' = acc.saved_ids
         /\ all_filings' = acc.all_filings
    /\ UNCHANGED <<p1_pc, dry_run, chunks, save_i, total_saved, run_no, fetched_all>>
    /\ UNCHANGED <<sql_statements, historyVars, exchange_filing, upsertVars>>
    /\ UNCHANGED notPhase1

\* lines 477-486: every chunk has been handled
Phase1Collected ==
    /\ p1_pc = "chunks" /\ chunk_idx = Len(chunks)
    /\ p1_pc' = IF all_filings = <<>> THEN "return" ELSE "save"
    /\ save_i' = 0
    /\ total_saved' = 0
    /\ UNCHANGED <<dry_run, chunks, chunk_idx, all_filings, saved_ids, run_no,
                   fetched_all>>
    /\ UNCHANGED <<sql_statements, historyVars, exchange_filing, upsertVars>>
    /\ UNCHANGED notPhase1

\* lines 487-490 and 92-94: a batch of a dry run is counted, nothing is sent
Phase1SaveDryRun ==
    /\ p1_pc = "save" /\ save_i < Len(all_filings)
    /\ dry_run
    /\ total_saved' = total_saved + Len(Batch)
    /\ save_i' = save_i + SAVE_BATCH
    /\ UNCHANGED <<p1_pc, dry_run, chunks, chunk_idx, all_filings, saved_ids,
                   run_no, fetched_all>>
    /\ UNCHANGED <<sql_statements, historyVars, exchange_filing, upsertVars>>
    /\ UNCHANGED notPhase1

\* lines 487-489 and 96-163: the statements of a batch are built and
\* upsert_batch_with_retry is called with them
Phase1SaveCall ==
    /\ p1_pc = "save" /\ save_i < Len(all_filings)
    /\ ~ dry_run
    /\ sql_statements' = [k \in DOMAIN Batch |-> UpsertStatement(Batch[k])]
    /\ statements' = Len(Batch)
    /\ malformed' \in SUBSET (1 .. Len(Batch))
    /\ budget' \in 0 .. MaxTransient
    /\ transients' = 0
    /\ log_ok' \in BOOLEAN
    /\ frames' = <<Frame(1, Len(Batch), 0)>>
    /\ ret' = None
    /\ result' = None
    /\ written' = [k \in DOMAIN Batch |-> 0]
    /\ requests' = 0
    /\ failed_sql' = <<>>
    /\ attempted' = {}
    /\ p1_pc' = "saving"
    /\ UNCHANGED <<dry_run, chunks, chunk_idx, all_filings, saved_ids, save_i,
                   total_saved, run_no, fetched_all>>
    /\ UNCHANGED <<historyVars, exchange_filing>>
    /\ UNCHANGED notPhase1

\* lines 163-166 and 489-490: the call returned the number of saved filings
Phase1SaveReturn ==
    /\ p1_pc = "saving" /\ result # None
    /\ total_saved' = total_saved + result
    /\ save_i' = save_i + SAVE_BATCH
    /\ p1_pc' = "save"
    /\ sql_statements' = <<>>
    /\ statements' = 0 /\ malformed' = {} /\ budget' = 0 /\ transients' = 0
    /\ log_ok' = TRUE /\ frames' = <<>> /\ ret' = None /\ result' = None
    /\ written' = <<>> /\ requests' = 0 /\ failed_sql' = <<>> /\ attempted' = {}
    /\ UNCHANGED <<dry_run, chunks, chunk_idx, all_filings, saved_ids, run_no,
                   fetched_all>>
    /\ UNCHANGED <<historyVars, exchange_filing>>
    /\ UNCHANGED notPhase1

\* history: the scrape fetched every chunk and saved every record it collected
Complete == fetched_all /\ ~ dry_run /\ total_saved = Len(all_filings)

\* lines 480-482 and 498-499: run_phase1 returns
Phase1Return ==
    /\ \/ p1_pc = "return"
       \/ p1_pc = "save" /\ save_i >= Len(all_filings)
    /\ p1_pc' = "done"
    /\ first_table' = IF run_no = 1 THEN exchange_filing ELSE first_table
    /\ first_complete' = IF run_no = 1 THEN Complete ELSE first_complete
    /\ UNCHANGED <<dry_run, chunks, chunk_idx, all_filings, saved_ids, save_i,
                   total_saved, run_no, fetched_all>>
    /\ UNCHANGED <<sql_statements, exchange_filing, upsertVars>>
    /\ UNCHANGED notPhase1

\* main.py 132: the same date range is scraped again, the API holds the same
\* records
Phase1Again ==
    /\ p1_pc = "done"
    /\ run_no + 1 \in Scrapes
    /\ run_no' = run_no + 1
    /\ dry_run' \in BOOLEAN
    /\ p1_pc' = "chunks"
    /\ Phase1Locals
    /\ UNCHANGED <<chunks, sql_statements, historyVars, exchange_filing, upsertVars>>
    /\ UNCHANGED notPhase1

\* lines 270-280 and 372-377: the fields the UPDATE of a document save and of
\* a status mark set, by the values the frame claim follows
DocumentWrites ==
    { [documentText |-> <<"text">>, documentTables |-> <<"tables">>,
       documentStatus |-> "processed", documentStatusReason |-> <<>>],
      [documentStatus |-> "skipped", documentStatusReason |-> <<"http_404">>],
      [documentStatus |-> "failed", documentStatusReason |-> <<"save_error">>] }

\* lines 557-560: WHERE documentStatus IS NONE AND documentUrl IS NOT NONE
Eligible(row) == "documentStatus" \notin DOMAIN row /\ "documentUrl" \in DOMAIN row

\* main.py 132-147: between two scrapes the backfill saves or marks an
\* eligible filing
BackfillBetween ==
    /\ p1_pc = "done"
    /\ run_no + 1 \in Scrapes
    /\ \E fid \in DOMAIN exchange_filing, w \in DocumentWrites :
         /\ Eligible(exchange_filing[fid])
         /\ exchange_filing' = [exchange_filing EXCEPT ![fid] = w @@ @]
    /\ UNCHANGED <<sql_statements, scrapeVars, historyVars, upsertVars>>
    /\ UNCHANGED notPhase1

\* the first scrape of a date range: an empty table, and any records in the
\* monthly chunks
Phase1Init ==
    /\ exchange_filing = EmptyTable
    /\ p1_pc = "chunks"
    /\ dry_run \in BOOLEAN
    /\ chunks \in [Months -> RecordLists(MaxChunkLen)]
    /\ chunk_idx = 0 /\ all_filings = <<>> /\ saved_ids = {}
    /\ save_i = 0 /\ total_saved = 0 /\ fetched_all = TRUE
    /\ run_no = 1
    /\ first_table = EmptyTable /\ first_complete = FALSE

Phase1Next ==
    \/ Phase1ChunkSkipped
    \/ Phase1ChunkFetched
    \/ Phase1Collected
    \/ Phase1SaveDryRun
    \/ Phase1SaveCall
    \/ UpsertAccepted
    \/ UpsertGiveUp
    \/ UpsertSplit
    \/ UpsertReturnLeft
    \/ UpsertReturnRight
    \/ UpsertDone
    \/ Phase1SaveReturn
    \/ Phase1Return
    \/ BackfillBetween
    \/ Phase1Again

InitPhase1 == Phase1Init /\ UpsertIdle /\ SaveIdle /\ Phase2Idle /\ MainIdle /\ UtilsIdle

SpecPhase1 ==
    /\ InitPhase1
    /\ [][Phase1Next]_vars

----------------------------------------------------------------------------
(* Claims about run_phase1 *)

\* the (stockCode, date, title) of a record
Key(f) == <<f.stockCode, f.date, f.title>>

\* the records the HKEx API holds for the scraped date range
Ingested == UNION { { chunks[m][k] : k \in DOMAIN chunks[m] } : m \in DOMAIN chunks }

\* the metadata of a row without the time of its last write
Metadata(row) ==
    [filingId |-> row.filingId, stockCode |-> row.stockCode, stockName |-> row.stockName,
     title |-> row.title, filingDate |-> row.filingDate, documentUrl |-> row.documentUrl]

\* C10: the filing id depends on (stockCode, date, title) only; within a
\* scrape every id is collected once, so no two statements of a call name the
\* same row; every row is stored under the id of an ingested record with the
\* stockCode and title of that record, and there are never more rows than
\* ingested (stockCode, date, title); and after a first scrape that saved
\* every record, scraping the same records again adds and removes no row and,
\* when every chunk is fetched again, leaves each row's metadata as it was
C10_SameIdUpsertsInPlace ==
    /\ \A f \in Records, g \in Records : Key(f) = Key(g) => FilingId(f) = FilingId(g)
    /\ \A i \in DOMAIN all_filings, j \in DOMAIN all_filings :
            i # j => FilingId(all_filings[i]) # FilingId(all_filings[j])
    /\ saved_ids = { FilingId(all_filings[i]) : i \in DOMAIN all_filings }
    /\ \A i \in DOMAIN sql_statements, j \in DOMAIN sql_statements :
            i # j => sql_statements[i].fid # sql_statements[j].fid
    /\ \A fid \in DOMAIN exchange_filing :
            /\ exchange_filing[fid].filingId = fid
            /\ \E f \in Ingested :
                /\ FilingId(f) = fid
                /\ exchange_filing[fid].stockCode = f.stockCode
                /\ exchange_filing[fid].title = f.title
    /\ Cardinality(DOMAIN exchange_filing) <= Cardinality({ Key(f) : f \in Ingested })
    /\ (run_no = 2 /\ first_complete)
            => /\ DOMAIN exchange_filing = DOMAIN first_table
               /\ fetched_all
                    => \A fid \in DOMAIN exchange_filing :
                            Metadata(exchange_filing[fid]) = Metadata(first_table[fid])

\* the API returned one filing twice, under two stock names; both scrapes
\* collected it once and saved it, and the table holds the one row the first
\* scrape created, written again by the second
C10_Witness ==
    /\ p1_pc = "done" /\ run_no = 2
    /\ first_complete /\ Complete
    /\ Len(chunks[1]) = 1 /\ Len(chunks[2]) = 1
    /\ chunks[1][1].stockName # chunks[2][1].stockName
    /\ Len(all_filings) = 1
    /\ DOMAIN exchange_filing = {FilingId(chunks[2][1])}
    /\ first_table # EmptyTable
    /\ \A fid \in DOMAIN exchange_filing :
            /\ exchange_filing[fid].updatedAt = 2
            /\ exchange_filing[fid].stockName = chunks[1][1].stockName

\* the fields of a row that the document save and the status mark write
DocumentFields == {"documentText", "documentTables", "documentStatus", "documentStatusReason"}

DocumentPart(row) == [k \in DOMAIN row \cap DocumentFields |-> row[k]]

\* C30: no step of a scrape changes a document field of a row that has a
\* documentStatus, so the upsert of an existing filing leaves its status,
\* reason, text and tables as they were and the filing stays ineligible for
\* the backfill
C30_UpsertKeepsDocumentFields ==
    [][\A fid \in DOMAIN exchange_filing :
          ~ Eligible(exchange_filing[fid]) =>
              /\ fid \in DOMAIN exchange_filing'
              /\ DocumentPart(exchange_filing'[fid]) = DocumentPart(exchange_filing[fid])
              /\ ~ Eligible(exchange_filing'[fid])]_vars

\* the second scrape has written the metadata of a filing again after the
\* backfill processed it
C30_Witness ==
    /\ p1_pc = "done" /\ run_no = 2
    /\ \E fid \in DOMAIN exchange_filing :
         /\ exchange_filing[fid].updatedAt = 2
         /\ ~ Eligible(exchange_filing[fid])
         /\ exchange_filing[fid].documentStatus = "processed"
         /\ exchange_filing[fid].documentText = <<"text">>

----------------------------------------------------------------------------
(* main                                                     main.py 21-167 *)

\* the kinds of request that create or modify database state: the schema
\* definition and the field removal of initialize_schema (db.py 162-191), the
\* UPSERT of Phase 1, the UPDATE of Phase 2 and the RELATE of graph.py
Writes == {"define", "remove", "upsert", "update", "relate"}

\* a check that looks at the endpoint only
missingEndpointOnly == { v \in {"SURREAL_ENDPOINT"} : ~ env[v] }

\* lines 23-27: the required settings that are empty
missing == { v \in {"SURREAL_ENDPOINT", "SURREAL_PASS"} : ~ env[v] }

\* what a call of run_phase1 sends (pipeline.py 387-499): the HKEx API is
\* queried, and the collected filings are upserted unless dry_run is set
Phase1Work(dry) ==
    IF dry THEN {{"scrape"}} ELSE {{"scrape"}, {"scrape", "upsert"}}

\* what a call of run_phase2 sends (pipeline.py 506-678): the count and the
\* select, then downloads and the UPDATEs of the saves and of the marks
Phase2Work == { {"select"} \cup w : w \in SUBSET {"download", "update"} }

\* what link_filings_to_companies and cross_reference_filings send
\* (graph.py 41-230): nothing when COMPANY_TABLE is empty
LinkWork ==
    IF env.COMPANY_TABLE THEN {{"select"}, {"select", "relate"}} ELSE {{}}

\* lines 101-105, 21-30: the environment is validated; sys.exit(1) when a
\* required setting is missing
MainValidateEnv ==
    /\ main_pc = "start"
    /\ IF missing # {}
       THEN main_pc' = "exited" /\ exit_status' = 1
       ELSE main_pc' = "schema" /\ exit_status' = exit_status
    /\ UNCHANGED <<args, env, total, sent>>
    /\ UNCHANGED notMain

\* lines 107-112 and db.py 162-191: initialize_schema sends the schema
\* definition and, when it was accepted, the removal of documentContent
MainInitSchema ==
    /\ main_pc = "schema"
    /\ \E accepted \in BOOLEAN :
         sent' = sent \cup (IF accepted THEN {"define", "remove"} ELSE {"define"})
    /\ main_pc' = "dispatch"
    /\ UNCHANGED <<args, env, total, exit_status>>
    /\ UNCHANGED notMain

\* lines 114-120: --backfill-docs runs Phase 2 only
MainBackfillOnly ==
    /\ main_pc = "dispatch"
    /\ args.backfill_docs
    /\ \E work \in Phase2Work : sent' = sent \cup work
    /\ main_pc' = "complete"
    /\ UNCHANGED <<args, env, total, exit_status>>
    /\ UNCHANGED notMain

\* lines 121-129: --link-only refreshes the graph edges
MainLinkOnly ==
    /\ main_pc = "dispatch"
    /\ ~ args.backfill_docs /\ args.link_only
    /\ \E work \in LinkWork : sent' = sent \cup work
    /\ main_pc' = "complete"
    /\ UNCHANGED <<args, env, total, exit_status>>
    /\ UNCHANGED notMain

\* lines 130-138: Phase 1 is run with the dry_run flag; it returns the number
\* of filings saved, or collected when dry_run is set
MainPhase1 ==
    /\ main_pc = "dispatch"
    /\ ~ args.backfill_docs /\ ~ args.link_only
    /\ \E work \in Phase1Work(args.dry_run) :
         /\ sent' = sent \cup work
         /\ total' \in IF "upsert" \in work \/ args.dry_run THEN {0, 1} ELSE {0}
    /\ main_pc' = "phase1_done"
    /\ UNCHANGED <<args, env, exit_status>>
    /\ UNCHANGED notMain

\* lines 139-146: the filings are linked, unless dry_run is set or nothing
\* was saved
MainLink ==
    /\ main_pc = "phase1_done"
    /\ IF ~ args.dry_run /\ total > 0
       THEN /\ \E work \in LinkWork : sent' = sent \cup work
            /\ main_pc' = "linked"
       ELSE /\ sent' = sent
            /\ main_pc' = "complete"
    /\ UNCHANGED <<args, env, total, exit_status>>
    /\ UNCHANGED notMain

\* lines 148-160: Phase 2 follows, unless --metadata-only
MainPhase2 ==
    /\ main_pc = "linked"
    /\ IF ~ args.metadata_only
       THEN \E work \in Phase2Work : sent' = sent \cup work
       ELSE sent' = sent
    /\ main_pc' = "complete"
    /\ UNCHANGED <<args, env, total, exit_status>>
    /\ UNCHANGED notMain

\* lines 162-167: main returns
MainComplete ==
    /\ main_pc = "complete"
    /\ main_pc' = "done"
    /\ exit_status' = 0
    /\ UNCHANGED <<args, env, total, sent>>
    /\ UNCHANGED notMain

\* every command line and every environment
MainInit ==
    /\ main_pc = "start"
    /\ args \in [backfill_docs : BOOLEAN, link_only : BOOLEAN, metadata_only : BOOLEAN,
                 dry_run : BOOLEAN]
    /\ env \in [SURREAL_ENDPOINT : BOOLEAN, SURREAL_PASS : BOOLEAN, COMPANY_TABLE : BOOLEAN]
    /\ total = 0 /\ exit_status = None /\ sent = {}

MainNext ==
    \/ MainValidateEnv
    \/ MainInitSchema
    \/ MainBackfillOnly
    \/ MainLinkOnly
    \/ MainPhase1
    \/ MainLink
    \/ MainPhase2
    \/ MainComplete

InitMain == MainInit /\ UpsertIdle /\ SaveIdle /\ Phase2Idle /\ Phase1Idle /\ UtilsIdle

SpecMain ==
    /\ InitMain
    /\ [][MainNext]_vars

----------------------------------------------------------------------------
(* Claims about main *)

\* the endpoint or the password is not set
ConfigMissing == ~ env.SURREAL_ENDPOINT \/ ~ env.SURREAL_PASS

\* C14: when the endpoint or the password is missing, main exits with a
\* non-zero status at its first step: no request is ever sent and no scrape,
\* download or linking is done; with both set, main never exits that way
C14_MissingConfigIsFatalBeforeWork ==
    /\ [](ConfigMissing => /\ sent = {}
                           /\ main_pc \in {"start", "exited"})
    /\ [](main_pc = "exited" <=> (exit_status # None /\ exit_status # 0))
    /\ [](main_pc = "exited" => ConfigMissing)
    /\ [][main_pc = "start" /\ ConfigMissing => main_pc' = "exited"]_vars

\* main has exited with status 1 because only the password is missing, and
\* nothing was sent
C14_Witness ==
    /\ main_pc = "exited"
    /\ exit_status = 1
    /\ env.SURREAL_ENDPOINT /\ ~ env.SURREAL_PASS
    /\ sent = {}

\* C15: with --dry-run no request that creates or modifies database state is
\* sent between the start of main and its end
C15_DryRunSendsNoWrite ==
    args.dry_run => sent \cap Writes = {}

----------------------------------------------------------------------------
(* escape_sql called on its own                            utils.py 52-61 *)

\* the longest argument of escape_sql, in characters
MaxStrLen == 3

\* a letter, the space, the single quote, the backslash and a control character
Chars == {"a", " ", "'", "\\", "\n"}

\* utils.py 52-61: the call
EscapeCall ==
    /\ esc_pc = "call"
    /\ esc_result' = escape_sql(s_arg)
    /\ esc_pc' = "done"
    /\ UNCHANGED <<s_arg, ref_pc, title, own_stock_code, ref_result, apiVars>>
    /\ UNCHANGED notUtils

\* None and every string of at most MaxStrLen characters
EscapeInit ==
    /\ esc_pc = "call"
    /\ s_arg \in {PyNone} \cup { Str(chars) : chars \in SeqsUpTo(Chars, MaxStrLen) }
    /\ esc_result = <<>>
    /\ ref_pc = "idle" /\ title = <<>> /\ own_stock_code = <<>> /\ ref_result = <<>>
    /\ ApiIdle

EscapeNext ==
    \/ EscapeCall

InitEscape ==
    EscapeInit /\ UpsertIdle /\ SaveIdle /\ Phase2Idle /\ Phase1Idle /\ MainIdle

SpecEscape ==
    /\ InitEscape
    /\ [][EscapeNext]_vars

----------------------------------------------------------------------------
(* Claims about escape_sql *)

\* the number of occurrences of the character c in s
RECURSIVE CountOf(_, _)
CountOf(s, c) ==
    IF s = <<>> THEN 0
    ELSE (IF s[1] = c THEN 1 ELSE 0) + CountOf(Tail(s), c)

\* read from the left, every backslash is followed by a backslash or a quote
\* that it escapes, and no quote stands without the backslash that escapes it
RECURSIVE NoUnescapedQuote(_)
NoUnescapedQuote(s) ==
    IF s = <<>> THEN TRUE
    ELSE IF s[1] = "\\"
         THEN Len(s) >= 2 /\ s[2] \in {"\\", "'"} /\ NoUnescapedQuote(Tail(Tail(s)))
         ELSE s[1] # "'" /\ NoUnescapedQuote(Tail(s))

\* C19: escape_sql(None) is the empty string; for a string the result has two
\* backslashes for every backslash of the argument and one backslash before
\* every single quote, reads back as the printable characters of the argument,
\* and holds no single quote that is not escaped
C19_EscapeSqlLeavesNoBareQuote ==
    esc_pc = "done" =>
        /\ s_arg.none => esc_result = <<>>
        /\ NoUnescapedQuote(esc_result)
        /\ CountOf(esc_result, "'") = CountOf(s_arg.chars, "'")
        /\ CountOf(esc_result, "\\") =
              2 * CountOf(s_arg.chars, "\\") + CountOf(s_arg.chars, "'")
        /\ LiteralValue(esc_result) = SelectSeq(s_arg.chars, LAMBDA c : c # "\n")

\* the string of a backslash and a quote has become \\\'
C19_Witness ==
    /\ esc_pc = "done"
    /\ s_arg = Str(<<"\\", "'">>)
    /\ esc_result = <<"\\", "\\", "\\", "'">>

----------------------------------------------------------------------------
(* extract_referenced_tickers                            utils.py 164-183 *)
(* A title is the sequence of its parts: the label "stock code: ", the     *)
(* separator ", ", other words, "(", ".HK)" and runs of digits; two runs   *)
(* that follow each other are one longer run.                              *)

\* the longest title, in parts
MaxTitleLen == 4

Part(k) == [k |-> k, d |-> <<>>]

Num(d) == [k |-> "num", d |-> d]

\* the runs of digits a title is made of, and the codes of the filing itself
Numbers == {<<1, 2>>, <<0, 0, 1>>, <<0, 2, 9, 8>>}

OwnCodes == {<<0, 0, 0, 1>>, <<2, 9, 8>>}

TitleParts == { Part(k) : k \in {"label", "sep", "word", "open", "hk"} }
                  \cup { Num(d) : d \in Numbers }

\* the title as the regular expressions see it: adjacent digits are one run
RECURSIVE JoinDigits(_)
JoinDigits(t) ==
    IF Len(t) < 2 THEN t
    ELSE IF t[1].k = "num" /\ t[2].k = "num"
         THEN JoinDigits(<<Num(t[1].d \o t[2].d)>> \o Tail(Tail(t)))
         ELSE <<t[1]>> \o JoinDigits(Tail(t))

\* lines 172, 169: \d{3,5} taken greedily from a run of digits, again and
\* again; fewer than 3 digits left over are no code
RECURSIVE Chunks(_)
Chunks(d) ==
    IF Len(d) < 3 THEN {}
    ELSE LET n == Min(5, Len(d))
         IN  {SubSeq(d, 1, n)} \cup Chunks(SubSeq(d, n + 1, Len(d)))

\* [,\s]*: the position after the separators that start at i
RECURSIVE AfterSeps(_, _)
AfterSeps(t, i) ==
    IF i <= Len(t) /\ t[i].k = "sep" THEN AfterSeps(t, i + 1) ELSE i

\* lines 169-170: (?:\d{3,5}[,\s]*)+ from position i on: the match needs a run
\* of at least 3 digits there, and ends at the first leftover digits or part
\* that is neither a run nor a separator
RECURSIVE ListFrom(_, _)
ListFrom(t, i) ==
    IF i > Len(t) \/ t[i].k # "num" \/ Len(t[i].d) < 3 THEN {}
    ELSE Chunks(t[i].d)
            \cup (IF Len(t[i].d) % 5 \in {1, 2} THEN {}
                  ELSE ListFrom(t, AfterSeps(t, i + 1)))

\* lines 168-173: the codes after each "stock code" label
LabelCodes(t) ==
    UNION { ListFrom(t, i + 1) : i \in { j \in DOMAIN t : t[j].k = "label" } }

\* lines 175-176: \((\d{3,5})\.HK\)
SuffixCodes(t) ==
    { t[i + 1].d : i \in { j \in 1 .. Len(t) - 2 :
                              /\ t[j].k = "open"
                              /\ t[j + 1].k = "num" /\ Len(t[j + 1].d) \in 3 .. 5
                              /\ t[j + 2].k = "hk" } }

\* lines 167, 180: code.lstrip("0") or "0"
RECURSIVE lstrip0(_)
lstrip0(d) ==
    IF d = <<>> THEN <<0>>
    ELSE IF d[1] = 0 THEN lstrip0(Tail(d))
    ELSE d

\* line 182: str.zfill(width)
RECURSIVE zfill(_, _)
zfill(d, width) == IF Len(d) >= width THEN d ELSE zfill(<<0>> \o d, width)

\* line 182: f"{normalized.zfill(4)}.HK"
Ticker(code) == [code |-> zfill(lstrip0(code), 4), suffix |-> ".HK"]

\* the order of sorted() on two tickers: "." sorts before every digit
RECURSIVE DigitsLess(_, _)
DigitsLess(a, b) ==
    IF a = <<>> THEN b # <<>>
    ELSE IF b = <<>> THEN FALSE
    ELSE IF a[1] # b[1] THEN a[1] < b[1]
    ELSE DigitsLess(Tail(a), Tail(b))

\* line 183: sorted(set(result))
RECURSIVE Sorted(_)
Sorted(S) ==
    IF S = {} THEN <<>>
    ELSE LET least == CHOOSE x \in S : \A y \in S \ {x} : DigitsLess(x.code, y.code)
         IN  <<least>> \o Sorted(S \ {least})

\* utils.py 164-183
extract_referenced_tickers(t, own) ==
    LET joined == JoinDigits(t)
        referenced == LabelCodes(joined) \cup SuffixCodes(joined)
        own_normalized == lstrip0(own)
        tickers == { Ticker(code) : code \in { c \in referenced : lstrip0(c) # own_normalized } }
    IN  Sorted(tickers)

\* utils.py 164-183: the call
ExtractCall ==
    /\ ref_pc = "call"
    /\ ref_result' = extract_referenced_tickers(title, own_stock_code)
    /\ ref_pc' = "done"
    /\ UNCHANGED <<title, own_stock_code, esc_pc, s_arg, esc_result, apiVars>>
    /\ UNCHANGED notUtils

\* every title of at most MaxTitleLen parts and every own code
ExtractInit ==
    /\ ref_pc = "call"
    /\ title \in SeqsUpTo(TitleParts, MaxTitleLen)
    /\ own_stock_code \in OwnCodes
    /\ ref_result = <<>>
    /\ esc_pc = "idle" /\ s_arg = PyNone /\ esc_result = <<>>
    /\ ApiIdle

ExtractNext ==
    \/ ExtractCall

InitTickers ==
    ExtractInit /\ UpsertIdle /\ SaveIdle /\ Phase2Idle /\ Phase1Idle /\ MainIdle

SpecTickers ==
    /\ InitTickers
    /\ [][ExtractNext]_vars

----------------------------------------------------------------------------
(* Claims about extract_referenced_tickers *)

\* a code of the title: a whole run of 3 to 5 digits
IsCode(p) == p.k = "num" /\ Len(p.d) \in 3 .. 5

\* the codes in a list after a "stock code" label: only codes, other runs of
\* digits and separators stand between the label and the code
AfterLabel(t) ==
    { t[p].d : p \in { q \in DOMAIN t :
                          /\ IsCode(t[q])
                          /\ \E l \in 1 .. q - 1 :
                                /\ t[l].k = "label"
                                /\ \A m \in l + 1 .. q - 1 : t[m].k \in {"num", "sep"} } }

\* the codes written as (NNNN.HK)
WithSuffix(t) ==
    { t[p].d : p \in { q \in 2 .. Len(t) - 1 :
                          IsCode(t[q]) /\ t[q - 1].k = "open" /\ t[q + 1].k = "hk" } }

Referenced == AfterLabel(JoinDigits(title)) \cup WithSuffix(JoinDigits(title))

\* C20: the list returned holds the ticker of every code of 3 to 5 digits that
\* the title references after a "stock code" label or as (NNNN.HK), the own
\* code left out after stripping leading zeros, and of nothing else; it has no
\* duplicates, and it is empty when the title references no code
C20_ReferencedTickersExact ==
    ref_pc = "done" =>
        /\ { ref_result[i] : i \in DOMAIN ref_result } =
              { Ticker(c) : c \in { x \in Referenced : lstrip0(x) # lstrip0(own_stock_code) } }
        /\ \A i, j \in DOMAIN ref_result : ref_result[i] = ref_result[j] => i = j
        /\ Referenced = {} => ref_result = <<>>

----------------------------------------------------------------------------
(* generate_monthly_chunks                                    api.py 126-144 *)

\* the years of the dates the model draws, from 2023 on: 2024 is a leap year
MaxYears == 2
Years == 2023 .. 2023 + MaxYears - 1

\* calendar.monthrange without the leap day
monthrange_no_leap(year, month) ==
    IF month = 2 THEN 28
    ELSE IF month \in {4, 6, 9, 11} THEN 30 ELSE 31

\* line 138: the second component of calendar.monthrange(year, month)
monthrange(year, month) ==
    IF month = 2
    THEN IF year % 4 = 0 /\ (year % 100 # 0 \/ year % 400 = 0) THEN 29 ELSE 28
    ELSE IF month \in {4, 6, 9, 11} THEN 30 ELSE 31

\* the order of datetime values
DtLess(a, b) ==
    \/ a.y < b.y
    \/ a.y = b.y /\ a.m < b.m
    \/ a.y = b.y /\ a.m = b.m /\ a.d < b.d
    \/ a.y = b.y /\ a.m = b.m /\ a.d = b.d /\ ~ a.late /\ b.late

DtLeq(a, b) == a = b \/ DtLess(a, b)

\* lines 137, 139: max and min of two datetimes
DtMax(a, b) == IF DtLess(a, b) THEN b ELSE a

DtMin(a, b) == IF DtLess(b, a) THEN b ELSE a

\* lines 135, 136: datetime(year, month, 1)
MonthStart(year, month) == Dt(year, month, 1, FALSE)

\* lines 136-143: the iterations of the loop from the cursor on
RECURSIVE ChunksFromCursor(_, _, _)
ChunksFromCursor(cursor, date_from, date_to) ==
    IF ~ DtLeq(MonthStart(date_from.y, date_from.m), cursor) THEN <<>>
    ELSE LET chunk_start == DtMax(cursor, date_from)
             last_day == monthrange(cursor.y, cursor.m)
             chunk_end == DtMin(Dt(cursor.y, cursor.m, last_day, FALSE), date_to)
             previous == IF cursor.m = 1 THEN MonthStart(cursor.y - 1, 12)
                         ELSE MonthStart(cursor.y, cursor.m - 1)
         IN  <<[start |-> chunk_start, end |-> chunk_end]>>
             \o ChunksFromCursor(previous, date_from, date_to)

\* lines 126-144
generate_monthly_chunks(date_from, date_to) ==
    ChunksFromCursor(MonthStart(date_to.y, date_to.m), date_from, date_to)

GenerateCall ==
    /\ gen_pc = "call"
    /\ monthly_chunks' = generate_monthly_chunks(dt_from, dt_to)
    /\ gen_pc' = "done"
    /\ UNCHANGED <<dt_from, dt_to>>
    /\ UNCHANGED <<esc_pc, s_arg, esc_result, ref_pc, title, own_stock_code, ref_result>>
    /\ UNCHANGED notUtils

\* the days of a month the model draws: its first days, its middle and every
\* day a month can end on
Days == {1, 2, 15, 28, 29, 30, 31}

\* the calendar days of the years of the model
Dates ==
    { d \in [y : Years, m : 1 .. 12, d : Days] : d.d \in Days /\ d.d <= monthrange(d.y, d.m) }

\* pipeline.py 401-413: date_from is a parsed date, 1 April 1999 or the first
\* day of last month, at midnight; date_to is a parsed date or datetime.now()
GenerateInit ==
    /\ gen_pc = "call"
    /\ \E f \in Dates : dt_from = Dt(f.y, f.m, f.d, FALSE)
    /\ \E t \in Dates, late \in BOOLEAN : dt_to = Dt(t.y, t.m, t.d, late)
    /\ monthly_chunks = <<>>
    /\ esc_pc = "idle" /\ s_arg = PyNone /\ esc_result = <<>>
    /\ ref_pc = "idle" /\ title = <<>> /\ own_stock_code = <<>> /\ ref_result = <<>>

GenerateNext ==
    \/ GenerateCall

InitChunks ==
    GenerateInit /\ UpsertIdle /\ SaveIdle /\ Phase2Idle /\ Phase1Idle /\ MainIdle

SpecChunks ==
    /\ InitChunks
    /\ [][GenerateNext]_vars

----------------------------------------------------------------------------
(* Claims about generate_monthly_chunks *)

\* the number of a calendar day in the count of days of the Gregorian calendar
DayNumber(t) ==
    LET a == (14 - t.m) \div 12
        yy == t.y + 4800 - a
        mm == t.m + 12 * a - 3
    IN  t.d + (153 * mm + 2) \div 5 + 365 * yy + yy \div 4 - yy \div 100 + yy \div 400
        - 32045

SameMonth(a, b) == a.y = b.y /\ a.m = b.m

\* C28: for date_from <= date_to the chunks are each within one calendar
\* month with start <= end, the first ends on the day of date_to, the last
\* starts on the day of date_from, and each chunk ends on the day before the
\* chunk listed before it starts: newest first, no gap, no overlap
C28_ChunksTileTheRange ==
    (gen_pc = "done" /\ DtLeq(dt_from, dt_to)) =>
        LET c == monthly_chunks
        IN  /\ Len(c) >= 1
            /\ \A i \in DOMAIN c : SameMonth(c[i].start, c[i].end) /\ DtLeq(c[i].start, c[i].end)
            /\ DayNumber(c[1].end) = DayNumber(dt_to)
            /\ DayNumber(c[Len(c)].start) = DayNumber(dt_from)
            /\ \A i \in 1 .. Len(c) - 1 :
                  DayNumber(c[i + 1].end) + 1 = DayNumber(c[i].start)

\* a range from December of one year to the end of March of a leap year
C28_Witness ==
    /\ gen_pc = "done"
    /\ dt_from = Dt(2023, 12, 15, FALSE)
    /\ dt_to = Dt(2024, 3, 31, TRUE)
    /\ Len(monthly_chunks) = 4
    /\ monthly_chunks[2] = [start |-> Dt(2024, 2, 1, FALSE), end |-> Dt(2024, 2, 29, FALSE)]

====
